---- MODULE Spec2Model ----
(***************************************************************************)
(* proxy-fetch: the pagination-driven fetch/extract pipeline of fetch.js.  *)
(* The newer fetch.js (src/unnamed/part_000, lines 85-803) is modelled as  *)
(* a state machine: main(), the 'fetchPage' event handler, fetchPage(),    *)
(* saveProxies() and the retry timer.  JavaScript values that the code     *)
(* mixes (numbers, NaN, strings, undefined) are modelled with their        *)
(* coercions, because the page state _urlPage holds all of them.           *)
(***************************************************************************)
EXTENDS Integers, Sequences, FiniteSets

(***************************************************************************)
(* Bounds of the model.                                                    *)
(***************************************************************************)
\* longest configured source list
MaxUrls == 2
\* transport calls per cycle after which the sites stop answering with records
MaxCalls == 3
\* cycles of a run (the first one and those started by the retry timer)
MaxCycles == 2
\* the longest sequence of records a cycle hands to the store on its own
MaxNew == 2
\* the flushes of a run of the store on its own
MaxFlushes == 2
\* the entries of a comma-separated -u value
MaxCliUrls == 3
\* the rows of a document of a site
MaxRows == 2
\* the fragments of the address span of a hidemyass row
MaxFrags == 2

(***************************************************************************)
(* JavaScript values: a number, NaN, a string (a sequence of characters)   *)
(* or undefined.                                                           *)
(***************************************************************************)
Num(n) == [t |-> "num", n |-> n, s |-> <<>>]
NaN == [t |-> "nan", n |-> 0, s |-> <<>>]
Str(s) == [t |-> "str", n |-> 0, s |-> s]
Undefined == [t |-> "undef", n |-> 0, s |-> <<>>]

Digits == <<"0", "1", "2", "3", "4", "5", "6", "7", "8", "9">>
IsDigit(c) == \E d \in 1..10 : Digits[d] = c
DigitVal(c) == (CHOOSE d \in 1..10 : Digits[d] = c) - 1

\* UTF-16 code units of the characters that occur in the page parameters
CharCode(c) ==
    CASE c = "-" -> 45
      [] c = "/" -> 47
      [] IsDigit(c) -> 48 + DigitVal(c)
      [] c = ":" -> 58
      [] c = "N" -> 78
      [] c = "a" -> 97
      [] c = "b" -> 98
      [] c = "c" -> 99
      [] c = "d" -> 100
      [] c = "e" -> 101
      [] c = "f" -> 102
      [] c = "i" -> 105
      [] c = "n" -> 110
      [] c = "o" -> 111
      [] c = "u" -> 117
      [] OTHER -> 0

RECURSIVE NatToString(_)
NatToString(n) ==
    IF n < 10 THEN <<Digits[n + 1]>>
    ELSE NatToString(n \div 10) \o <<Digits[(n % 10) + 1]>>

\* String(v), and the implicit conversion of '0' + v
StringOf(v) ==
    CASE v.t = "str" -> v.s
      [] v.t = "nan" -> <<"N", "a", "N">>
      [] v.t = "undef" -> <<"u", "n", "d", "e", "f", "i", "n", "e", "d">>
      [] OTHER -> IF v.n < 0 THEN <<"-">> \o NatToString(0 - v.n)
                  ELSE NatToString(v.n)

RECURSIVE LeadingDigits(_)
LeadingDigits(s) ==
    IF s = <<>> \/ ~IsDigit(Head(s)) THEN <<>>
    ELSE <<Head(s)>> \o LeadingDigits(Tail(s))

RECURSIVE DigitsValue(_)
DigitsValue(s) ==
    IF s = <<>> THEN 0
    ELSE 10 * DigitsValue(SubSeq(s, 1, Len(s) - 1)) + DigitVal(s[Len(s)])

\* parseInt(v): the sign and the leading decimal digits of String(v), else NaN
parseInt(v) ==
    LET str == StringOf(v)
        neg == str # <<>> /\ Head(str) = "-"
        body == IF neg THEN Tail(str) ELSE str
        ds == LeadingDigits(body)
    IN  IF ds = <<>> THEN NaN
        ELSE Num(IF neg THEN 0 - DigitsValue(ds) ELSE DigitsValue(ds))

\* ToNumber(v), the conversion the relational operators apply
ToNumber(v) ==
    CASE v.t = "num" -> v
      [] v.t = "str" ->
            IF v.s = <<>> THEN Num(0)
            ELSE IF \A i \in 1..Len(v.s) : IsDigit(v.s[i]) THEN Num(DigitsValue(v.s))
            ELSE IF Head(v.s) = "-" /\ Len(v.s) > 1
                    /\ \A i \in 2..Len(v.s) : IsDigit(v.s[i])
                 THEN Num(0 - DigitsValue(Tail(v.s)))
            ELSE NaN
      [] OTHER -> NaN

RECURSIVE StrLess(_, _)
StrLess(a, b) ==
    IF b = <<>> THEN FALSE
    ELSE IF a = <<>> THEN TRUE
    ELSE IF CharCode(Head(a)) # CharCode(Head(b))
         THEN CharCode(Head(a)) < CharCode(Head(b))
    ELSE StrLess(Tail(a), Tail(b))

\* a < b: two strings compare by code units, anything else as numbers, and a
\* comparison with NaN is false
Less(a, b) ==
    IF a.t = "str" /\ b.t = "str" THEN StrLess(a.s, b.s)
    ELSE LET x == ToNumber(a)
             y == ToNumber(b)
         IN  x.t = "num" /\ y.t = "num" /\ x.n < y.n

\* a > b
Greater(a, b) == Less(b, a)

\* a + b of two numbers
Add(a, b) == IF a.t = "num" /\ b.t = "num" THEN Num(a.n + b.n) ELSE NaN

Contains(s, c) == \E i \in 1..Len(s) : s[i] = c

\* s.split(c): the pieces of s between the occurrences of c
RECURSIVE Split(_, _)
Split(s, c) ==
    IF ~Contains(s, c) THEN <<s>>
    ELSE LET i == CHOOSE k \in 1..Len(s) : s[k] = c /\ \A j \in 1..(k - 1) : s[j] # c
         IN  <<SubSeq(s, 1, i - 1)>> \o Split(SubSeq(s, i + 1, Len(s)), c)

\* arr[i] of a split, as a JavaScript value (0-based)
Piece(arr, i) == IF i + 1 <= Len(arr) THEN Str(arr[i + 1]) ELSE Undefined

(***************************************************************************)
(* URL text.  A URL is a string; indexOf, substr and replace work on it.   *)
(***************************************************************************)
\* s.substring(m - 1, n), the empty string when there is nothing in between
Sub(s, m, n) == IF m > n \/ n > Len(s) THEN "" ELSE SubSeq(s, m, n)

\* s.indexOf(sub): the 0-based position of the first occurrence, or -1
IndexOf(s, sub) ==
    LET at == {i \in 0..(Len(s) - Len(sub)) : Sub(s, i + 1, i + Len(sub)) = sub}
    IN  IF at = {} THEN -1 ELSE CHOOSE i \in at : \A j \in at : i <= j

\* s.lastIndexOf(sub)
LastIndexOf(s, sub) ==
    LET at == {i \in 0..(Len(s) - Len(sub)) : Sub(s, i + 1, i + Len(sub)) = sub}
    IN  IF at = {} THEN -1 ELSE CHOOSE i \in at : \A j \in at : i >= j

RECURSIVE Text(_)
\* the string of a sequence of characters
Text(chars) == IF chars = <<>> THEN "" ELSE chars[1] \o Text(Tail(chars))

RECURSIVE SplitText(_, _)
\* s.split(sep) for a string s and a non-empty separator
SplitText(s, sep) ==
    LET i == IndexOf(s, sep)
    IN  IF i < 0 THEN <<s>>
        ELSE <<Sub(s, 1, i)>> \o SplitText(Sub(s, i + Len(sep) + 1, Len(s)), sep)

\* pageUrl.replace(/{page.*}/, page): the match runs from the first "{page"
\* to the last "}" after it
ReplacePage(pageUrl, page) ==
    LET a == IndexOf(pageUrl, "{page")
        rest == Sub(pageUrl, a + 6, Len(pageUrl))
        b == LastIndexOf(rest, "}")
    IN  IF a < 0 \/ b < 0 THEN pageUrl
        ELSE Sub(pageUrl, 1, a) \o page \o Sub(rest, b + 2, Len(rest))

(***************************************************************************)
(* The configured sources.  A template is the URL pattern with the result  *)
(* of the placeholder match of fetchPage on it: ph says whether it matched *)
(* and params is the text between "{page" and "}".  post says whether the  *)
(* pattern starts with "POST:", and sig names the site the URL belongs to, *)
(* by the signature of its adapter ("" for a site that has none).          *)
(***************************************************************************)
Template(url, post, ph, params, sig) ==
    [url |-> url, post |-> post, ph |-> ph, params |-> params, sig |-> sig]

Hidemyass == Template("http://proxylist.hidemyass.com/search-1292985/{page}",
                      FALSE, TRUE, <<>>, "hidemyass")
Incloak == Template("http://incloak.com/proxy-list/?start={page:0-64}",
                    FALSE, TRUE, <<":", "0", "-", "6", "4">>, "incloak")
Samair == Template("http://www.samair.ru/proxy/proxy-{page:01}.htm",
                   FALSE, TRUE, <<":", "0", "1">>, "samair")
UsProxy == Template("http://www.us-proxy.org/", FALSE, FALSE, <<>>, "us-proxy")
Gather == Template("POST:http://gatherproxy.com/proxylist/country/?Country=united+kingdom&PageIdx:{page:1/2}",
                   TRUE, TRUE, <<":", "1", "/", "2">>, "gather")
\* sources a user can pass with -u
PaddedStride == Template("http://incloak.com/proxy-list/?start={page:01-1}",
                         FALSE, TRUE, <<":", "0", "1", "-", "1">>, "incloak")
Malformed == Template("http://www.us-proxy.org/{page:abc}",
                      FALSE, TRUE, <<":", "a", "b", "c">>, "us-proxy")
PageFoo == Template("http://www.us-proxy.org/{pagefoo}",
                    FALSE, TRUE, <<"f", "o", "o">>, "us-proxy")

Templates == {Hidemyass, Incloak, Samair, UsProxy, Gather, PaddedStride, Malformed, PageFoo}

\* entries of a comma-separated -u value: a site no adapter knows, and the
\* empty string that split(',') yields for "a,,b" and "a,"
NoAdapter == Template("http://example.org/proxies/{page}", FALSE, TRUE, <<>>, "")
EmptyEntry == Template("", FALSE, FALSE, <<>>, "")
CliEntries == {Hidemyass, UsProxy, NoAdapter, EmptyEntry}

\* the default sources of the constructor, each with the site it belongs to,
\* named by the signature of the site's adapter
DefaultUrls ==
    <<
      [url |-> "http://proxylist.hidemyass.com/search-1292985/{page}",
       site |-> "hidemyass"],
      [url |-> "http://incloak.com/proxy-list/?start={page:0-64}",
       site |-> "incloak"],
      [url |-> "https://nordvpn.com/wp-admin/admin-ajax.php?searchParameters%5B0%5D%5Bname%5D=proxy-country&searchParameters%5B0%5D%5Bvalue%5D=&searchParameters%5B1%5D%5Bname%5D=proxy-ports&searchParameters%5B1%5D%5Bvalue%5D=&offset={page:0-1000}&limit=1000&action=getProxies",
       site |-> "nordvpn"],
      [url |-> "http://proxy-list.org/english/index.php?p={page}",
       site |-> "proxy-list"],
      [url |-> "http://www.cool-proxy.net/proxies/http_proxy_list/page:{page}/sort:score/direction:desc",
       site |-> "cool-proxy"],
      [url |-> "http://www.samair.ru/proxy/proxy-{page:01}.htm",
       site |-> "samair"],
      [url |-> "http://rosinstrument.com/proxy/l{page}00.xml",
       site |-> "rosin"],
      [url |-> "http://www.us-proxy.org/",
       site |-> "us-proxy"],
      [url |-> "http://www.us-proxy.org/uk-proxy.html",
       site |-> "us-proxy"],
      [url |-> "http://list.proxylistplus.com/Fresh-HTTP-Proxy-List-{page}",
       site |-> "proxylistplus"],
      [url |-> "POST:http://gatherproxy.com/proxylist/country/?Country=united%20states&PageIdx:{page:1/14}",
       site |-> "gather"],
      [url |-> "POST:http://gatherproxy.com/proxylist/country/?Country=china&PageIdx:{page:1/24}",
       site |-> "gather"],
      [url |-> "POST:http://gatherproxy.com/proxylist/country/?Country=brazil&PageIdx:{page:1/10}",
       site |-> "gather"],
      [url |-> "POST:http://gatherproxy.com/proxylist/country/?Country=russia&PageIdx:{page:1/9}",
       site |-> "gather"],
      [url |-> "POST:http://gatherproxy.com/proxylist/country/?Country=indonesia&PageIdx:{page:1/9}",
       site |-> "gather"],
      [url |-> "POST:http://gatherproxy.com/proxylist/country/?Country=taiwan&PageIdx:{page:1/7}",
       site |-> "gather"],
      [url |-> "POST:http://gatherproxy.com/proxylist/country/?Country=india&PageIdx:{page:1/4}",
       site |-> "gather"],
      [url |-> "POST:http://gatherproxy.com/proxylist/country/?Country=thailand&PageIdx:{page:1/4}",
       site |-> "gather"],
      [url |-> "POST:http://gatherproxy.com/proxylist/country/?Country=france&PageIdx:{page:1/3}",
       site |-> "gather"],
      [url |-> "POST:http://gatherproxy.com/proxylist/country/?Country=united+kingdom&PageIdx:{page:1/2}",
       site |-> "gather"],
      [url |-> "http://www.httptunnel.ge/ProxyListForFree.aspx",
       site |-> "httptunnel.ge"]
    >>

\* the records the sites list, and the bodies a 200 response carries
Bodies == {[shape |-> "rows", recs |-> <<>>],
           [shape |-> "rows", recs |-> <<"2.2.2.2:81", "1.1.1.1:80">>],
           [shape |-> "bad", recs |-> <<>>]}

VARIABLES
    urls,        \* this.urls, the configured templates
    retry,       \* this.retry, whether a retry interval is configured
    _urlIndex,   \* this._urlIndex (0-based)
    _urlPage,    \* this._urlPage, a JavaScript value
    urlPage,     \* this.urlPage, the property the retry timer writes
    _proxies,    \* this._proxies, the in-memory accumulator
    file,        \* the output file: whether it exists and its lines
    pending,     \* transport calls issued and not yet answered
    timers,      \* retry timers scheduled and not yet fired
    calls,       \* the transport calls of the current cycle, in order
    flushes,     \* flushes of the current cycle
    cycle,       \* number of the current cycle, from 1
    started,     \* main() has run
    crashed,     \* an exception escaped a callback
    firstCall,   \* the first transport call of the run
    writable,    \* whether fs.writeFileSync succeeds on the output path
    complete,    \* the 'complete' events emitted in the current cycle
    flushLog,    \* the flushes that wrote the file: what went in and out
    doc,         \* a document handed to extractProxies: its URL and its rows
    out          \* what extractProxies made of doc

vars == <<urls, retry, _urlIndex, _urlPage, urlPage, _proxies, file, pending,
          timers, calls, flushes, cycle, started, crashed, firstCall, writable,
          complete, flushLog, doc, out>>

\* the whole state as one value, which the handlers pass along and return
State ==
    [urls |-> urls, retry |-> retry, _urlIndex |-> _urlIndex, _urlPage |-> _urlPage,
     urlPage |-> urlPage, _proxies |-> _proxies, file |-> file, pending |-> pending,
     timers |-> timers, calls |-> calls, flushes |-> flushes, cycle |-> cycle,
     started |-> started, crashed |-> crashed, firstCall |-> firstCall,
     writable |-> writable, complete |-> complete, flushLog |-> flushLog,
     doc |-> doc, out |-> out]

Becomes(st) ==
    /\ urls' = st.urls
    /\ retry' = st.retry
    /\ _urlIndex' = st._urlIndex
    /\ _urlPage' = st._urlPage
    /\ urlPage' = st.urlPage
    /\ _proxies' = st._proxies
    /\ file' = st.file
    /\ pending' = st.pending
    /\ timers' = st.timers
    /\ calls' = st.calls
    /\ flushes' = st.flushes
    /\ cycle' = st.cycle
    /\ started' = st.started
    /\ crashed' = st.crashed
    /\ firstCall' = st.firstCall
    /\ writable' = st.writable
    /\ complete' = st.complete
    /\ flushLog' = st.flushLog
    /\ doc' = st.doc
    /\ out' = st.out

\* no document is being extracted
NoDoc == [url |-> "", rows |-> <<>>]
NoOut == [ran |-> FALSE, threw |-> FALSE, ips |-> <<>>, checked |-> <<>>]

\* this.urls[i] is truthy: the entry exists and is not the empty string
HasUrl(st, i) == i >= 0 /\ i + 1 <= Len(st.urls) /\ st.urls[i + 1].url # ""

(***************************************************************************)
(* Record Store: saveProxies.  The file is held as the lines that          *)
(* split('\n') reads from it; join writes an empty array as the empty      *)
(* text, which reads back as one empty line.                               *)
(***************************************************************************)
\* this.outputFile as the constructor sets it, without the directory of the
\* script
outputFile == "/proxies/fetched/fetched_proxies_{date}.txt"

\* the day of the run as toISOString gives it
Today == "2026-11-05"

\* dateStamp(): the parts of the ISO date in reverse order, DD-MM-YYYY
dateStamp ==
    LET parts == SplitText(Today, "-")
    IN  parts[3] \o "-" \o parts[2] \o "-" \o parts[1]

\* String(this.outputFile).replace("{date}", this.dateStamp()): the first
\* occurrence of the token is replaced
outputPath ==
    LET i == IndexOf(outputFile, "{date}")
    IN  IF i < 0 THEN outputFile
        ELSE Sub(outputFile, 1, i) \o dateStamp
             \o Sub(outputFile, i + 7, Len(outputFile))

join(arr) == IF arr = <<>> THEN <<"">> ELSE arr
split(lines) == lines

RECURSIVE Dedup(_)
\* Array.from(new Set(arr)): the first occurrence of each element, in order
Dedup(arr) ==
    IF arr = <<>> THEN <<>>
    ELSE LET init == Dedup(SubSeq(arr, 1, Len(arr) - 1))
             last == arr[Len(arr)]
         IN  IF \E i \in 1..Len(init) : init[i] = last THEN init ELSE Append(init, last)

\* the count taken as the grand total instead of the difference
RemovedIsGrandTotal(appended, merged) == Len(merged)

\* oldTotal - this._proxies.length, which is computed only for an existing file
Removed(appended, merged) == Len(appended) - Len(merged)

\* the flush that writes the accumulator over the file without reading it
saveProxiesOverwrites(st) ==
    IF ~st.writable
    THEN [st EXCEPT !.flushes = @ + 1, !.crashed = TRUE]
    ELSE [st EXCEPT !.file = [exists |-> TRUE, lines |-> join(st._proxies)],
                    !.flushes = @ + 1,
                    !.complete = Append(@, [path |-> outputPath,
                                            count |-> Len(st._proxies),
                                            file |-> join(st._proxies),
                                            timers |-> st.timers]),
                    !.flushLog = Append(@, [acc |-> st._proxies,
                                            prior |-> st.file,
                                            written |-> join(st._proxies),
                                            removed |-> 0,
                                            count |-> Len(st._proxies)])]

\* the merge with the lines of the file put before the new records
saveProxiesPriorFirst(st) ==
    LET appended == IF st.file.exists
                    THEN split(st.file.lines) \o st._proxies
                    ELSE st._proxies
        merged == IF st.file.exists THEN Dedup(appended) ELSE st._proxies
    IN  IF ~st.writable
        THEN [st EXCEPT !._proxies = merged, !.flushes = @ + 1, !.crashed = TRUE]
        ELSE [st EXCEPT !._proxies = merged,
                        !.file = [exists |-> TRUE, lines |-> join(merged)],
                        !.flushes = @ + 1,
                        !.complete = Append(@, [path |-> outputPath,
                                                count |-> Len(merged),
                                                file |-> join(merged),
                                                timers |-> st.timers]),
                        !.flushLog = Append(@, [acc |-> st._proxies,
                                                prior |-> st.file,
                                                written |-> join(merged),
                                                removed |-> Removed(appended, merged),
                                                count |-> Len(merged)])]

\* writeFileSync throws on a path that cannot be written: the exception leaves
\* saveProxies after the merge and before the 'complete' event
saveProxies(st) ==
    LET appended == IF st.file.exists
                    THEN st._proxies \o split(st.file.lines)
                    ELSE st._proxies
        merged == IF st.file.exists THEN Dedup(appended) ELSE st._proxies
    IN  IF ~st.writable
        THEN [st EXCEPT !._proxies = merged, !.flushes = @ + 1, !.crashed = TRUE]
        ELSE [st EXCEPT !._proxies = merged,
                        !.file = [exists |-> TRUE, lines |-> join(merged)],
                        !.flushes = @ + 1,
                        !.complete = Append(@, [path |-> outputPath,
                                                count |-> Len(merged),
                                                file |-> join(merged),
                                                timers |-> st.timers]),
                        !.flushLog = Append(@, [acc |-> st._proxies,
                                                prior |-> st.file,
                                                written |-> join(merged),
                                                removed |-> Removed(appended, merged),
                                                count |-> Len(merged)])]

\* the save closure setting the timer whether or not a retry is configured
saveAlwaysRetries(st) ==
    LET s1 == saveProxies(st)
    IN  IF s1.crashed THEN s1 ELSE [s1 EXCEPT !.timers = @ + 1]

\* the save closure with the failure of the write caught and the timer set
saveIgnoresWriteFailure(st) ==
    LET s1 == saveProxies(st)
    IN  IF s1.retry THEN [s1 EXCEPT !.timers = @ + 1, !.crashed = FALSE] ELSE s1

\* the save closure of the 'fetchPage' handler: flush, then set the retry timer
save(st) ==
    LET s1 == saveProxies(st)
    IN  IF s1.crashed THEN s1
        ELSE IF s1.retry THEN [s1 EXCEPT !.timers = @ + 1] ELSE s1

(***************************************************************************)
(* Adapter selection: the else-if chain of extractProxies tests the URL of *)
(* the result for one signature after the other.                           *)
(***************************************************************************)
Signatures ==
    <<"hidemyass", "incloak", "proxy-list", "nordvpn", "cool-proxy", "samair", "rosin",
      "us-proxy", "proxylistplus", "gather", "httptunnel.ge">>

\* the chain written as independent tests: every branch whose test holds runs
ProcessorsEveryTest(url) ==
    {Signatures[i] : i \in {i \in 1..Len(Signatures) : IndexOf(url, Signatures[i]) > -1}}

\* the branches of the chain that run for a URL: a branch runs when its test
\* holds and no test before it did
Processors(url) ==
    LET hit == {i \in 1..Len(Signatures) : IndexOf(url, Signatures[i]) > -1}
    IN  {Signatures[i] : i \in {i \in hit : \A j \in hit : i <= j}}

\* the adapter that runs, "" for the final else ("No processor for")
Processor(url) ==
    IF Processors(url) = {} THEN "" ELSE CHOOSE sig \in Processors(url) : TRUE

(***************************************************************************)
(* The request of fetchPage: the page put into the template, the POST:     *)
(* prefix taken off, the form read from the query.                         *)
(***************************************************************************)
\* querystring.unescape, for the escapes the configured URLs use: + is a space
Unescape(s) ==
    LET parts == SplitText(s, "+")
        Glue[i \in 1..Len(parts)] == IF i = 1 THEN parts[1] ELSE Glue[i - 1] \o " " \o parts[i]
    IN  Glue[Len(parts)]

\* url.parse(pageUrl, true).query: the name and value of each parameter after
\* the first "?", in order
Query(pageUrl) ==
    LET q == IndexOf(pageUrl, "?")
        search == IF q < 0 THEN "" ELSE Sub(pageUrl, q + 2, Len(pageUrl))
        items == IF search = "" THEN <<>> ELSE SplitText(search, "&")
        Pair(item) ==
            LET e == IndexOf(item, "=")
            IN  IF e < 0 THEN [name |-> Unescape(item), value |-> ""]
                ELSE [name |-> Unescape(Sub(item, 1, e)),
                      value |-> Unescape(Sub(item, e + 2, Len(item)))]
    IN  [i \in 1..Len(items) |-> Pair(items[i])]

\* the payload with the method set and the POST: prefix left on the URL
PayloadKeepsPrefix(pageUrl) ==
    IF Sub(pageUrl, 1, 5) = "POST:"
    THEN [url |-> pageUrl, method |-> "POST", form |-> <<Query(pageUrl)>>]
    ELSE [url |-> pageUrl, method |-> "GET", form |-> <<>>]

\* the request payload: form is <<the form body>> for POST, <<>> when absent
Payload(pageUrl) ==
    IF Sub(pageUrl, 1, 5) = "POST:"
    THEN LET stripped == Sub(pageUrl, 6, Len(pageUrl))
         IN  [url |-> stripped, method |-> "POST", form |-> <<Query(stripped)>>]
    ELSE [url |-> pageUrl, method |-> "GET", form |-> <<>>]

\* a payload with the adapter that extractProxies runs on its result: the
\* callback hands it ret.url, the URL of the payload
Dispatched(req) ==
    [url |-> req.url, method |-> req.method, form |-> req.form,
     adapter |-> Processor(req.url)]

\* the request for a page of a template: String(startPage) put into the
\* template, the payload, and the adapter the URL of the result selects
Request(t, page) ==
    Dispatched(Payload(IF t.ph THEN ReplacePage(t.url, page) ELSE t.url))

\* the page texts of short runs; the requests for them are worked out once
PageTexts ==
    {"", "NaN"} \cup {Text(NatToString(n)) : n \in (0..20) \cup {64 * k : k \in 1..5}}
                \cup {z \o Text(NatToString(n)) : z \in {"0", "00"}, n \in 0..9}

Requests ==
    [t \in Templates \cup CliEntries |-> [page \in PageTexts |-> Request(t, page)]]

RequestOf(t, page) ==
    IF t \in DOMAIN Requests /\ page \in PageTexts THEN Requests[t][page]
    ELSE Request(t, page)

(***************************************************************************)
(* Extraction Adapter Registry: extractProxies, as far as the orchestrator *)
(* sees it.  A body is a document of the shape the adapter expects, with   *)
(* the records of its rows, or a document of another shape ("bad": not     *)
(* JSON, or a row without its style block).                                *)
(***************************************************************************)
\* extractProxies with a last branch that reads the rows of any document
extractProxiesAnySite(sig, body) ==
    CASE sig \in {"hidemyass", "nordvpn"} ->
            IF body.shape = "bad" THEN [threw |-> TRUE, ips |-> <<>>]
            ELSE [threw |-> FALSE, ips |-> body.recs]
      [] OTHER ->
            IF body.shape = "bad" THEN [threw |-> FALSE, ips |-> <<>>]
            ELSE [threw |-> FALSE, ips |-> body.recs]

extractProxies(sig, body) ==
    CASE sig = "" -> [threw |-> FALSE, ips |-> <<>>]
      [] sig \in {"hidemyass", "nordvpn"} ->
            IF body.shape = "bad" THEN [threw |-> TRUE, ips |-> <<>>]
            ELSE [threw |-> FALSE, ips |-> body.recs]
      [] OTHER ->
            IF body.shape = "bad" THEN [threw |-> FALSE, ips |-> <<>>]
            ELSE [threw |-> FALSE, ips |-> body.recs]

(***************************************************************************)
(* The adapters, row by row.  A row holds what the selectors of an adapter *)
(* read from one row of the document: the text of the address cell and of  *)
(* the port cell, the class of the cell, the rules of the style block and  *)
(* the fragments of the address span, the encoded payload.                 *)
(***************************************************************************)
\* the printable ASCII characters, from code 32; a string cannot hold the
\* grave accent (code 96), a blank stands in its place
Ascii ==
    " !\"#$%&'()*+,-./0123456789:;<=>?@ABCDEFGHIJKLMNOPQRSTUVWXYZ[\\]^_ abcdefghijklmnopqrstuvwxyz{|}~"

charCodeAt(c) == 32 + IndexOf(Ascii, c)
fromCharCode(n) == IF n \in 32..126 THEN Sub(Ascii, n - 31, n - 31) ELSE "?"

\* the characters of a string
Chars(s) == [i \in 1..Len(s) |-> Sub(s, i, i)]

\* c.toLowerCase() of one character
toLowerCase(c) ==
    IF charCodeAt(c) \in 65..90 THEN fromCharCode(charCodeAt(c) + 32) ELSE c

\* str_rot13 with the pattern /[a-z]/g, which leaves capitals alone
str_rot13LowerOnly(str) ==
    LET Turn(s) == IF charCodeAt(s) \in 97..122
                   THEN fromCharCode(charCodeAt(s)
                                     + (IF charCodeAt(toLowerCase(s)) < charCodeAt("n")
                                        THEN 13 ELSE -13))
                   ELSE s
    IN  Text([i \in 1..Len(str) |-> Turn(Sub(str, i, i))])

\* str_rot13: every match of /[a-z]/gi is moved by 13 codes, up when its
\* lower case is before 'n' and down otherwise
str_rot13(str) ==
    LET Turn(s) == IF charCodeAt(s) \in (65..90) \cup (97..122)
                   THEN fromCharCode(charCodeAt(s)
                                     + (IF charCodeAt(toLowerCase(s)) < charCodeAt("n")
                                        THEN 13 ELSE -13))
                   ELSE s
    IN  Text([i \in 1..Len(str) |-> Turn(Sub(str, i, i))])

Base64 == "ABCDEFGHIJKLMNOPQRSTUVWXYZabcdefghijklmnopqrstuvwxyz0123456789+/"

\* Buffer.from(s, 'base64').toString(): the characters outside the alphabet
\* are passed over, '=' ends the data, every four characters give three bytes
base64Decode(s) ==
    LET stop == IndexOf(s, "=")
        data == IF stop < 0 THEN s ELSE Sub(s, 1, stop)
        all == [i \in 1..Len(data) |-> IndexOf(Base64, Sub(data, i, i))]
        v == SelectSeq(all, LAMBDA x : x >= 0)
        byte(k) ==
            LET g == 4 * ((k - 1) \div 3)
            IN  CASE (k - 1) % 3 = 0 -> v[g + 1] * 4 + (v[g + 2] \div 16)
                  [] (k - 1) % 3 = 1 -> (v[g + 2] % 16) * 16 + (v[g + 3] \div 4)
                  [] OTHER -> (v[g + 3] % 4) * 64 + v[g + 4]
    IN  Text([k \in 1..((Len(v) * 6) \div 8) |-> fromCharCode(byte(k))])

\* one alternative of the pattern: 25[0-5], 2[0-4][0-9] or [01]?[0-9][0-9]?
IsOctet(s) ==
    /\ Len(s) \in 1..3
    /\ \A i \in 1..Len(s) : IsDigit(Sub(s, i, i))
    /\ DigitsValue(Chars(s)) <= 255

\* \b next to a digit: the other side is the end of the text or not a word
\* character
IsWordChar(c) ==
    \/ charCodeAt(c) \in (48..57) \cup (65..90) \cup (97..122)
    \/ c = "_"

\* validateIpAddress(ip): ip.match finds four octets joined by dots, with a
\* word boundary before and after
validateIpAddress(ip) ==
    \E i \in 1..Len(ip) : \E j \in i..Len(ip) :
        /\ i = 1 \/ ~IsWordChar(Sub(ip, i - 1, i - 1))
        /\ j = Len(ip) \/ ~IsWordChar(Sub(ip, j + 1, j + 1))
        /\ LET parts == SplitText(Sub(ip, i, j), ".")
           IN  Len(parts) = 4 /\ \A k \in 1..4 : IsOctet(parts[k])

\* the ports table of the samair branch, by class of the address cell
ports ==
    <<[cls |-> "r2463", port |-> "8080"], [cls |-> "rcb30", port |-> "3128"],
      [cls |-> "rc80e", port |-> "80"], [cls |-> "r991e", port |-> "8000"],
      [cls |-> "r4bd9", port |-> "3129"], [cls |-> "rf48f", port |-> "8008"],
      [cls |-> "rea0f", port |-> "9999"], [cls |-> "r375f", port |-> "8081"],
      [cls |-> "re097", port |-> "8082"], [cls |-> "r9d18", port |-> "666"],
      [cls |-> "r0a9e", port |-> "1337"], [cls |-> "r6dac", port |-> "6006"],
      [cls |-> "ra58b", port |-> "8088"], [cls |-> "r55ff", port |-> "81"],
      [cls |-> "rada6", port |-> "82"], [cls |-> "r263a", port |-> "9000"],
      [cls |-> "r0662", port |-> "8888"], [cls |-> "r0e06", port |-> "8118"],
      [cls |-> "r41cd", port |-> "7777"], [cls |-> "r44a3", port |-> "1920"],
      [cls |-> "ra5a4", port |-> "9797"], [cls |-> "r5ff5", port |-> "20000"],
      [cls |-> "r9ef3", port |-> "3123"], [cls |-> "rc9ec", port |-> "8102"],
      [cls |-> "r9f3e", port |-> "8123"], [cls |-> "r7420", port |-> "2226"],
      [cls |-> "r3f5e", port |-> "10081"], [cls |-> "rcaa2", port |-> "1080"],
      [cls |-> "r815d", port |-> "808"], [cls |-> "r162a", port |-> "25"],
      [cls |-> "r0860", port |-> "83"], [cls |-> "r4151", port |-> "8998"],
      [cls |-> "r5d46", port |-> "8090"], [cls |-> "r4623", port |-> "843"],
      [cls |-> "r30be", port |-> "2915"], [cls |-> "r519a", port |-> "10000"],
      [cls |-> "r0374", port |-> "31281"], [cls |-> "rdc85", port |-> "8989"],
      [cls |-> "ref8d", port |-> "8139"], [cls |-> "ra273", port |-> "8135"],
      [cls |-> "r8e42", port |-> "5555"], [cls |-> "r364f", port |-> "18000"],
      [cls |-> "re042", port |-> "2016"], [cls |-> "rf745", port |-> "9090"],
      [cls |-> "r7b93", port |-> "22684"], [cls |-> "r9011", port |-> "8143"],
      [cls |-> "r22d1", port |-> "8136"], [cls |-> "r0829", port |-> "8089"],
      [cls |-> "rc552", port |-> "27149"], [cls |-> "r60f2", port |-> "3205"],
      [cls |-> "r645a", port |-> "8083"], [cls |-> "rcac2", port |-> "87"],
      [cls |-> "r88fc", port |-> "7004"], [cls |-> "rcaa9", port |-> "443"]>>

\* classes: for every class of the style block, whether it displays inline;
\* a later rule for the same class replaces an earlier one
classes(style) ==
    [name \in {style[i].name : i \in 1..Len(style)} |->
        LET last == CHOOSE i \in 1..Len(style) :
                        /\ style[i].name = name
                        /\ \A j \in 1..Len(style) : style[j].name = name => j <= i
        IN  style[last].display = "inline"]

RECURSIVE html(_)
\* .html() of the address span without its style block: a fragment is bare
\* text or a span with a class
html(frags) ==
    IF frags = <<>> THEN ""
    ELSE (IF frags[1].cls = "" THEN frags[1].text
          ELSE "<span class=\"" \o frags[1].cls \o "\">" \o frags[1].text \o "</span>")
         \o html(Tail(frags))

RECURSIVE reconstruct(_, _, _)
\* the loop over contentsHtml, two pieces at a time from piece key (0-based)
reconstruct(contentsHtml, key, cl) ==
    IF key >= Len(contentsHtml) THEN ""
    ELSE LET current == contentsHtml[key + 1]
             nextHtml == IF key + 2 <= Len(contentsHtml) THEN contentsHtml[key + 2] ELSE ""
             next == IF nextHtml = "" THEN "undefined" ELSE SplitText(nextHtml, "<")[1]
             a == IndexOf(current, "class=\"")
             rest == Sub(current, a + 8, Len(current))
             b == LastIndexOf(rest, "\"")
             cls == IF a < 0 \/ b < 1 THEN "" ELSE Sub(rest, 1, b)
             numeric == \A i \in 1..Len(cls) : IsDigit(Sub(cls, i, i))
         IN  (IF Sub(current, 1, 1) # "<" THEN SplitText(current, "<")[1] ELSE "")
             \o (IF IndexOf(current, "inline") > -1 THEN next ELSE "")
             \o (IF cls # "" /\ ((cls \in DOMAIN cl /\ cl[cls]) \/ numeric)
                 THEN next ELSE "")
             \o reconstruct(contentsHtml, key + 2, cl)

\* a row of a document; the fields an adapter does not read are empty
Row(ip, port, cls, style, frags, payload) ==
    [ip |-> ip, port |-> port, cls |-> cls, style |-> style, frags |-> frags,
     payload |-> payload]

\* the handler of rosin with the test left out: every row is pushed
eachRowRosinPushesAll(sig, r) ==
    LET Checked(ip, port) ==
            [threw |-> FALSE, ips |-> <<ip \o ":" \o port>>, checked |-> <<ip>>]
        Nothing == [threw |-> FALSE, ips |-> <<>>, checked |-> <<>>]
        parts == SplitText(r.ip, ":")
        second == IF Len(parts) > 1 THEN parts[2] ELSE "undefined"
    IN  CASE sig = "hidemyass" ->
                IF r.style = <<>> THEN [threw |-> TRUE, ips |-> <<>>, checked |-> <<>>]
                ELSE Checked(reconstruct(SplitText(html(r.frags), ">"), 0,
                                         classes(r.style)), r.port)
          [] sig \in {"incloak", "nordvpn", "us-proxy", "proxylistplus", "gather"} ->
                Checked(r.ip, r.port)
          [] sig = "proxy-list" ->
                LET text == IF r.payload # "" THEN base64Decode(r.payload) ELSE r.ip
                    p == SplitText(text, ":")
                IN  Checked(p[1], IF Len(p) > 1 THEN p[2] ELSE "undefined")
          [] sig = "cool-proxy" ->
                IF r.payload = "" THEN Nothing
                ELSE Checked(base64Decode(str_rot13(r.payload)), r.port)
          [] sig = "samair" ->
                IF \E k \in 1..Len(ports) : ports[k].cls = r.cls
                THEN [threw |-> FALSE,
                      ips |-> <<r.ip \o ":"
                                \o ports[CHOOSE k \in 1..Len(ports) : ports[k].cls = r.cls].port>>,
                      checked |-> <<>>]
                ELSE Nothing
          [] sig = "rosin" -> Checked(parts[1], second)
          [] sig = "httptunnel.ge" ->
                [threw |-> FALSE,
                 ips |-> IF validateIpAddress(parts[1])
                         THEN <<parts[1] \o ":" \o second>> ELSE <<>>,
                 checked |-> <<parts[1]>>]
          [] OTHER -> Nothing

\* the handler the branch sig of extractProxies runs on each row: the
\* address and port it reads, the addresses it hands to validateIpAddress
\* and the records it pushes
eachRow(sig, r) ==
    LET Checked(ip, port) ==
            [threw |-> FALSE, ips |-> <<ip \o ":" \o port>>, checked |-> <<ip>>]
        Nothing == [threw |-> FALSE, ips |-> <<>>, checked |-> <<>>]
        parts == SplitText(r.ip, ":")
        second == IF Len(parts) > 1 THEN parts[2] ELSE "undefined"
    IN  CASE sig = "hidemyass" ->
                IF r.style = <<>> THEN [threw |-> TRUE, ips |-> <<>>, checked |-> <<>>]
                ELSE Checked(reconstruct(SplitText(html(r.frags), ">"), 0,
                                         classes(r.style)), r.port)
          [] sig \in {"incloak", "nordvpn", "us-proxy", "proxylistplus", "gather"} ->
                Checked(r.ip, r.port)
          [] sig = "proxy-list" ->
                LET text == IF r.payload # "" THEN base64Decode(r.payload) ELSE r.ip
                    p == SplitText(text, ":")
                IN  Checked(p[1], IF Len(p) > 1 THEN p[2] ELSE "undefined")
          [] sig = "cool-proxy" ->
                IF r.payload = "" THEN Nothing
                ELSE Checked(base64Decode(str_rot13(r.payload)), r.port)
          [] sig = "samair" ->
                IF \E k \in 1..Len(ports) : ports[k].cls = r.cls
                THEN [threw |-> FALSE,
                      ips |-> <<r.ip \o ":"
                                \o ports[CHOOSE k \in 1..Len(ports) : ports[k].cls = r.cls].port>>,
                      checked |-> <<>>]
                ELSE Nothing
          [] sig \in {"rosin", "httptunnel.ge"} ->
                [threw |-> FALSE,
                 ips |-> IF validateIpAddress(parts[1])
                         THEN <<parts[1] \o ":" \o second>> ELSE <<>>,
                 checked |-> <<parts[1]>>]
          [] OTHER -> Nothing

RECURSIVE extractRows(_, _)
\* extractProxies on a document: the branch the URL selects runs its handler
\* on every row; an exception in a handler leaves the function
extractRows(url, rows) ==
    IF rows = <<>> THEN [threw |-> FALSE, ips |-> <<>>, checked |-> <<>>]
    ELSE LET first == eachRow(Processor(url), rows[1])
             rest == extractRows(url, Tail(rows))
         IN  IF first.threw \/ rest.threw
             THEN [threw |-> TRUE, ips |-> <<>>, checked |-> <<>>]
             ELSE [threw |-> FALSE, ips |-> first.ips \o rest.ips,
                   checked |-> first.checked \o rest.checked]

(***************************************************************************)
(* Pagination Template Resolver: the first half of fetchPage.              *)
(***************************************************************************)
\* c == 0 for a character c
LooseZero(c) == ToNumber(Str(<<c>>)) = Num(0)

\* if (leftPad && startPage < 10) startPage = '0' + startPage
Pad(leftPad, v) ==
    IF leftPad /\ Less(v, Num(10)) THEN Str(<<"0">> \o StringOf(v)) ELSE v

\* startPage, inc, leftPad and reachedEnd after the parameters are parsed
parsePage(t, cur) ==
    LET default == [startPage |-> Num(1), inc |-> Num(1),
                    leftPad |-> FALSE, reachedEnd |-> FALSE]
    IN  IF ~t.ph \/ ~Contains(t.params, ":") THEN default
        ELSE LET params == Split(t.params, ":")[2]
             IN  IF Contains(params, "-")
                 THEN LET p == Split(params, "-")
                      IN  [default EXCEPT
                             !.startPage = Piece(p, 0),
                             !.inc = Piece(p, 1),
                             !.leftPad = /\ p[1] # <<>>
                                         /\ LooseZero(p[1][1])
                                         /\ Len(p[1]) > 1]
                 ELSE IF Contains(params, "/")
                 THEN LET p == Split(params, "/")
                      IN  [default EXCEPT
                             !.startPage = Piece(p, 0),
                             !.reachedEnd = Greater(cur, Piece(p, 1))]
                 ELSE [default EXCEPT
                         !.startPage = parseInt(Str(params)),
                         !.leftPad = /\ params # <<>>
                                     /\ params[1] = "0"
                                     /\ Len(params) > 1]

(***************************************************************************)
(* Fetch Orchestrator: fetchPage and the 'fetchPage' event handler that    *)
(* main registers.  fetchPage emits the synthetic result of a bounded      *)
(* source synchronously, so the two call each other.                       *)
(***************************************************************************)
\* the step to the next source that leaves the page state as it is
advanceKeepsPage(st) == [st EXCEPT !._urlIndex = @ + 1]

\* _urlIndex++; _urlPage = -1
advance(st) == [st EXCEPT !._urlIndex = @ + 1, !._urlPage = Num(-1)]

\* the result of the request of a call: the callback's arguments
Responses ==
    {[error |-> e, status |-> 0, body |-> [shape |-> "rows", recs |-> <<>>]] :
        e \in {"ETIMEDOUT", "ECONNREFUSED"}}
    \cup {[error |-> "", status |-> 404, body |-> [shape |-> "rows", recs |-> <<>>]]}
    \cup {[error |-> "", status |-> 200, body |-> b] : b \in Bodies}

\* request(payload, callback) and the step of the page state before it: the
\* call for the page is outstanding and logged
request(st, next, req, page, singlePage) ==
    [st EXCEPT !._urlPage = next,
               !.pending = Append(@, [idx |-> st._urlIndex,
                                      page |-> page,
                                      method |-> req.method, url |-> req.url,
                                      form |-> req.form, adapter |-> req.adapter,
                                      singlePage |-> singlePage,
                                      cycle |-> st.cycle,
                                      pos |-> Len(st.calls) + 1]),
               !.calls = Append(@, [idx |-> st._urlIndex, page |-> page,
                                    method |-> req.method, adapter |-> req.adapter,
                                    res |-> "pending", recs |-> <<>>])]

RECURSIVE fetchPage(_), onFetchPage(_, _)

\* fetchPage without the singlePage mark of a template with no placeholder
fetchPageNoSinglePage(st) ==
    LET t == st.urls[st._urlIndex + 1]
        p == parsePage(t, st._urlPage)
        start0 == IF t.ph THEN Pad(p.leftPad, p.startPage) ELSE p.startPage
        first == Less(st._urlPage, Num(0))
        \* the value substituted for the placeholder
        startPage == IF t.ph /\ ~first THEN st._urlPage ELSE start0
        s1 == IF t.ph /\ first THEN [st EXCEPT !._urlPage = start0] ELSE st
        next == Pad(p.leftPad, Add(parseInt(startPage), parseInt(p.inc)))
    IN  IF p.reachedEnd
        THEN onFetchPage(s1, [error |-> "", status |-> 0, singlePage |-> FALSE,
                              idx |-> st._urlIndex,
                              body |-> [shape |-> "rows", recs |-> <<>>]])
        ELSE request(s1, next,
                     RequestOf(t, IF t.ph THEN Text(StringOf(startPage)) ELSE ""),
                     IF t.ph THEN StringOf(startPage) ELSE <<>>,
                     FALSE)

fetchPage(st) ==
    LET t == st.urls[st._urlIndex + 1]
        p == parsePage(t, st._urlPage)
        start0 == IF t.ph THEN Pad(p.leftPad, p.startPage) ELSE p.startPage
        first == Less(st._urlPage, Num(0))
        \* the value substituted for the placeholder
        startPage == IF t.ph /\ ~first THEN st._urlPage ELSE start0
        s1 == IF t.ph /\ first THEN [st EXCEPT !._urlPage = start0] ELSE st
        next == Pad(p.leftPad, Add(parseInt(startPage), parseInt(p.inc)))
    IN  IF p.reachedEnd
        THEN onFetchPage(s1, [error |-> "", status |-> 0, singlePage |-> FALSE,
                              idx |-> st._urlIndex,
                              body |-> [shape |-> "rows", recs |-> <<>>]])
        ELSE request(s1, next,
                     RequestOf(t, IF t.ph THEN Text(StringOf(startPage)) ELSE ""),
                     IF t.ph THEN StringOf(startPage) ELSE <<>>,
                     ~t.ph)

\* the handler as the older fetch.js has it: a failure flushes at once
onFetchPageFailureSaves(st, data) ==
    IF data.error = "" /\ data.status = 200
    THEN LET x == extractProxies(data.adapter, data.body)
             s1 == [st EXCEPT !._proxies = @ \o x.ips]
         IN  IF x.threw THEN [st EXCEPT !.crashed = TRUE]
             ELSE IF Len(x.ips) > 0
             THEN IF data.singlePage /\ HasUrl(s1, s1._urlIndex + 1)
                  THEN fetchPage(advance(s1))
                  ELSE IF data.singlePage /\ ~HasUrl(s1, s1._urlIndex + 1)
                  THEN save(s1)
                  ELSE fetchPage(s1)
             ELSE IF HasUrl(st, st._urlIndex + 1)
             THEN fetchPage(advance(st))
             ELSE save(st)
    ELSE save(st)

\* the handler with the else before its second singlePage test left out: after
\* a single-page source it fetches the next source and then fetches again
onFetchPageNoElse(st, data) ==
    IF data.error = "" /\ data.status = 200
    THEN LET x == extractProxies(data.adapter, data.body)
             s1 == [st EXCEPT !._proxies = @ \o x.ips]
         IN  IF x.threw THEN [st EXCEPT !.crashed = TRUE]
             ELSE IF Len(x.ips) > 0
             THEN IF data.singlePage /\ HasUrl(s1, s1._urlIndex + 1)
                  THEN fetchPage(fetchPage(advance(s1)))
                  ELSE IF data.singlePage /\ ~HasUrl(s1, s1._urlIndex + 1)
                  THEN save(s1)
                  ELSE fetchPage(s1)
             ELSE IF HasUrl(st, st._urlIndex + 1)
             THEN fetchPage(advance(st))
             ELSE save(st)
    ELSE IF HasUrl(st, st._urlIndex + 1)
         THEN fetchPage(advance(st))
         ELSE save(st)

\* the handler flushing after every page of records before it fetches on
onFetchPageSavesEachPage(st, data) ==
    IF data.error = "" /\ data.status = 200
    THEN LET x == extractProxies(data.adapter, data.body)
             s1 == [st EXCEPT !._proxies = @ \o x.ips]
         IN  IF x.threw THEN [st EXCEPT !.crashed = TRUE]
             ELSE IF Len(x.ips) > 0
             THEN IF data.singlePage /\ HasUrl(s1, s1._urlIndex + 1)
                  THEN fetchPage(advance(s1))
                  ELSE IF data.singlePage /\ ~HasUrl(s1, s1._urlIndex + 1)
                  THEN save(s1)
                  ELSE fetchPage(save(s1))
             ELSE IF HasUrl(st, st._urlIndex + 1)
             THEN fetchPage(advance(st))
             ELSE save(st)
    ELSE IF HasUrl(st, st._urlIndex + 1)
         THEN fetchPage(advance(st))
         ELSE save(st)

\* the handler with the empty-result branch asking for the next page
onFetchPageEmptyRefetches(st, data) ==
    IF data.error = "" /\ data.status = 200
    THEN LET x == extractProxies(data.adapter, data.body)
             s1 == [st EXCEPT !._proxies = @ \o x.ips]
         IN  IF x.threw THEN [st EXCEPT !.crashed = TRUE]
             ELSE IF Len(x.ips) > 0
             THEN IF data.singlePage /\ HasUrl(s1, s1._urlIndex + 1)
                  THEN fetchPage(advance(s1))
                  ELSE IF data.singlePage /\ ~HasUrl(s1, s1._urlIndex + 1)
                  THEN save(s1)
                  ELSE fetchPage(s1)
             ELSE IF data.singlePage /\ HasUrl(st, st._urlIndex + 1)
             THEN fetchPage(advance(st))
             ELSE IF data.singlePage THEN save(st)
             ELSE fetchPage(st)
    ELSE IF HasUrl(st, st._urlIndex + 1)
         THEN fetchPage(advance(st))
         ELSE save(st)

onFetchPage(st, data) ==
    IF data.error = "" /\ data.status = 200
    THEN LET x == extractProxies(data.adapter, data.body)
             s1 == [st EXCEPT !._proxies = @ \o x.ips]
         IN  IF x.threw THEN [st EXCEPT !.crashed = TRUE]
             ELSE IF Len(x.ips) > 0
             THEN IF data.singlePage /\ HasUrl(s1, s1._urlIndex + 1)
                  THEN fetchPage(advance(s1))
                  ELSE IF data.singlePage /\ ~HasUrl(s1, s1._urlIndex + 1)
                  THEN save(s1)
                  ELSE fetchPage(s1)
             ELSE IF HasUrl(st, st._urlIndex + 1)
             THEN fetchPage(advance(st))
             ELSE save(st)
    ELSE IF HasUrl(st, st._urlIndex + 1)
         THEN fetchPage(advance(st))
         ELSE save(st)

\* how a result is classified in the log of calls
Outcome(sig, r) ==
    IF r.error # "" \/ r.status # 200 THEN "fail"
    ELSE LET x == extractProxies(sig, r.body)
         IN  IF x.threw THEN "threw" ELSE IF x.ips = <<>> THEN "empty" ELSE "recs"

Remove(seq, i) == SubSeq(seq, 1, i - 1) \o SubSeq(seq, i + 1, Len(seq))

(***************************************************************************)
(* The state after construction, and the steps of a run.                   *)
(***************************************************************************)
UrlLists == UNION {[1..n -> Templates] : n \in 1..MaxUrls}

Init ==
    /\ urls \in UrlLists
    /\ retry \in BOOLEAN
    /\ _urlIndex = 0
    /\ _urlPage = Num(-1)
    /\ urlPage = Undefined
    /\ _proxies = <<>>
    /\ file \in {[exists |-> FALSE, lines |-> <<>>],
                 [exists |-> TRUE, lines |-> <<"3.3.3.3:82", "1.1.1.1:80">>]}
    /\ pending = <<>>
    /\ timers = 0
    /\ calls = <<>>
    /\ flushes = 0
    /\ cycle = 1
    /\ started = FALSE
    /\ crashed = FALSE
    /\ firstCall = <<>>
    /\ writable \in BOOLEAN
    /\ complete = <<>>
    /\ flushLog = <<>>
    /\ doc = NoDoc
    /\ out = NoOut

\* main(): register the handler and fetch the first page
Main ==
    /\ ~started
    /\ LET st == fetchPage([State EXCEPT !.started = TRUE])
       IN  Becomes([st EXCEPT !.firstCall =
                       IF st.calls = <<>> THEN <<>>
                       ELSE <<[idx |-> st.calls[1].idx, page |-> st.calls[1].page]>>])

\* the request callback: a pending call is answered and the handler runs
Response ==
    /\ ~crashed
    /\ \E i \in 1..Len(pending), r \in Responses :
          LET call == pending[i]
              res == Outcome(call.adapter, r)
              logged == IF call.cycle = cycle /\ call.pos <= Len(calls)
                        THEN [calls EXCEPT ![call.pos].res = res,
                                           ![call.pos].recs = IF res = "recs" THEN r.body.recs
                                                              ELSE <<>>]
                        ELSE calls
          IN  /\ res = "recs" => Len(calls) < MaxCalls
              /\ Becomes(onFetchPage(
                    [State EXCEPT !.pending = Remove(@, i), !.calls = logged],
                    [error |-> r.error, status |-> r.status, body |-> r.body,
                     singlePage |-> call.singlePage, idx |-> call.idx,
                     url |-> call.url, adapter |-> call.adapter]))

\* the retry timer fires: reset and fetch again
RetryTimer ==
    /\ ~crashed
    /\ timers > 0
    /\ cycle < MaxCycles
    /\ Becomes(fetchPage([State EXCEPT !._urlIndex = 0,
                                       !.urlPage = Num(-1),
                                       !._proxies = <<>>,
                                       !.timers = @ - 1,
                                       !.cycle = @ + 1,
                                       !.calls = <<>>,
                                       !.flushes = 0,
                                       !.complete = <<>>,
                                       !.flushLog = <<>>]))

Next == Main \/ Response \/ RetryTimer

Spec == Init /\ [][Next]_vars

(***************************************************************************)
(* A run started from the command line with -u: the list is the split of   *)
(* the value at its commas, so entries can be empty.  The first entry is   *)
(* taken to be a URL.                                                      *)
(***************************************************************************)
CliLists ==
    {l \in UNION {[1..n -> CliEntries] : n \in 1..MaxCliUrls} : l[1] # EmptyEntry}

InitCli ==
    /\ urls \in CliLists
    /\ retry \in BOOLEAN
    /\ _urlIndex = 0
    /\ _urlPage = Num(-1)
    /\ urlPage = Undefined
    /\ _proxies = <<>>
    /\ file \in {[exists |-> FALSE, lines |-> <<>>],
                 [exists |-> TRUE, lines |-> <<"3.3.3.3:82", "1.1.1.1:80">>]}
    /\ pending = <<>>
    /\ timers = 0
    /\ calls = <<>>
    /\ flushes = 0
    /\ cycle = 1
    /\ started = FALSE
    /\ crashed = FALSE
    /\ firstCall = <<>>
    /\ writable \in BOOLEAN
    /\ complete = <<>>
    /\ flushLog = <<>>
    /\ doc = NoDoc
    /\ out = NoOut

SpecCli == InitCli /\ [][Next]_vars

(***************************************************************************)
(* The Record Store on its own: a cycle hands saveProxies a sequence of    *)
(* records, the save closure flushes it and sets the timer, and the timer  *)
(* empties the accumulator for the records of the next cycle.              *)
(***************************************************************************)
Records == {"1.1.1.1:80", "2.2.2.2:81"}
NewSeqs == UNION {[1..n -> Records] : n \in 0..MaxNew}

InitStore ==
    /\ urls = <<UsProxy>>
    /\ retry = TRUE
    /\ _urlIndex = 0
    /\ _urlPage = Num(-1)
    /\ urlPage = Undefined
    /\ _proxies \in NewSeqs
    /\ file \in {[exists |-> FALSE, lines |-> <<>>],
                 [exists |-> TRUE, lines |-> <<"">>],
                 [exists |-> TRUE, lines |-> <<"3.3.3.3:82", "1.1.1.1:80">>]}
    /\ pending = <<>>
    /\ timers = 0
    /\ calls = <<>>
    /\ flushes = 0
    /\ cycle = 1
    /\ started = TRUE
    /\ crashed = FALSE
    /\ firstCall = <<>>
    /\ writable = TRUE
    /\ complete = <<>>
    /\ flushLog = <<>>
    /\ doc = NoDoc
    /\ out = NoOut

\* the save closure at the end of a cycle
StoreFlush ==
    /\ timers = 0
    /\ Len(flushLog) < MaxFlushes
    /\ Becomes(save(State))

\* the retry timer empties the accumulator and the next cycle fills it
StoreLoad ==
    /\ timers > 0
    /\ \E new \in NewSeqs :
          Becomes([State EXCEPT !._proxies = new, !.timers = @ - 1, !.flushes = 0,
                                !.complete = <<>>])

NextStore == StoreFlush \/ StoreLoad

SpecStore == InitStore /\ [][NextStore]_vars

(***************************************************************************)
(* extractProxies on its own: a document of one of the sites is handed to  *)
(* the function, which walks its rows.                                     *)
(***************************************************************************)
\* addresses a cell can hold, with the payloads the encoding sites send for
\* them: Proxy('...') of proxy-list is the base64 of address:80, the
\* str_rot13("...") of cool-proxy the rot13 of the base64 of the address
Encoded ==
    <<[ip |-> "1.2.3.4", proxy |-> "MS4yLjMuNDo4MA==", rot |-> "ZF4lYwZhAN=="],
     [ip |-> "10.0.0.1", proxy |-> "MTAuMC4wLjE6ODA=", rot |-> "ZGNhZP4jYwR="],
     [ip |-> "256.1.1.1", proxy |-> "MjU2LjEuMS4xOjgw", rot |-> "ZwH2YwRhZF4k"],
     [ip |-> "1.2.3", proxy |-> "MS4yLjM6ODA=", rot |-> "ZF4lYwZ="],
     [ip |-> "x1.2.3.4", proxy |-> "eDEuMi4zLjQ6ODA=", rot |-> "rQRhZv4mYwD="],
     [ip |-> "9.1.2.3.4x", proxy |-> "OS4xLjIuMy40eDo4MA==", rot |-> "BF4kYwVhZl40rN=="]>>

Addresses == {Encoded[i].ip : i \in 1..Len(Encoded)}
EncodedFor(ip) == Encoded[CHOOSE i \in 1..Len(Encoded) : Encoded[i].ip = ip]

\* the URL of a result of a site: its first default source, resolved
SiteUrl(sig) ==
    LET i == CHOOSE i \in 1..Len(DefaultUrls) :
                 /\ DefaultUrls[i].site = sig
                 /\ \A j \in 1..Len(DefaultUrls) : DefaultUrls[j].site = sig => i <= j
    IN  Payload(ReplacePage(DefaultUrls[i].url, "1")).url

SiteUrls == [i \in 1..Len(Signatures) |-> SiteUrl(Signatures[i])]
UrlOf(sig) == SiteUrls[CHOOSE i \in 1..Len(Signatures) : Signatures[i] = sig]

\* the row of a site's document that shows an address with port 80
RowFor(sig, ip) ==
    CASE sig = "hidemyass" ->
            Row("", "80", "", <<[name |-> "a", display |-> "inline"]>>,
                <<[cls |-> "", text |-> ip]>>, "")
      [] sig = "proxy-list" -> Row("", "", "", <<>>, <<>>, EncodedFor(ip).proxy)
      [] sig = "cool-proxy" -> Row("", "80", "", <<>>, <<>>, EncodedFor(ip).rot)
      [] sig = "samair" -> Row(ip, "", "rc80e", <<>>, <<>>, "")
      [] sig \in {"rosin", "httptunnel.ge"} -> Row(ip \o ":80", "", "", <<>>, <<>>, "")
      [] OTHER -> Row(ip, "80", "", <<>>, <<>>, "")

\* documents of every site with up to MaxRows rows
TableDocs ==
    {[url |-> UrlOf(sig), rows |-> [i \in 1..Len(ips) |-> RowFor(sig, ips[i])]] :
        sig \in {Signatures[i] : i \in 1..Len(Signatures)},
        ips \in UNION {[1..n -> Addresses] : n \in 1..MaxRows}}

\* the style blocks of hidemyass rows: every class is shown or hidden
StyleNames == <<"a", "b", "inline">>
StyleBlocks ==
    {[i \in 1..Len(StyleNames) |-> [name |-> StyleNames[i], display |-> d[i]]] :
        d \in [1..Len(StyleNames) -> {"inline", "none"}]}

\* address spans of up to MaxFrags fragments: bare text or a span of a
\* class; the text of the i-th fragment is the digit i
FragClasses == {"", "a", "b", "22", "inline"}
FragSeqs ==
    {[i \in 1..Len(c) |-> [cls |-> c[i], text |-> Digits[i + 1]]] :
        c \in UNION {[1..n -> FragClasses] : n \in 1..MaxFrags}}

SpanDocs ==
    {[url |-> UrlOf("hidemyass"), rows |-> <<Row("", "80", "", style, frags, "")>>] :
        style \in StyleBlocks \cup {<<>>}, frags \in FragSeqs}

\* cool-proxy rows whose payload is any one character, or a text of letters
\* digits and separators
Payloads ==
    {Sub(Ascii, i, i) : i \in 1..Len(Ascii)}
    \cup {Encoded[i].rot : i \in 1..Len(Encoded)}
    \cup {"MS4yLjMuNA==", "Hello, World 19.z", "mnMN", "a-z_A-Z/0+9=", "NOPQRSTUVWXYZABCDEFGHIJKLM"}

PayloadDocs ==
    {[url |-> UrlOf("cool-proxy"), rows |-> <<Row("", "80", "", <<>>, <<>>, payload)>>] :
        payload \in Payloads}

Docs ==
    TableDocs \cup SpanDocs \cup PayloadDocs
    \cup {[url |-> Request(NoAdapter, "1").url, rows |-> <<RowFor("", "1.2.3.4")>>]}

InitExtract ==
    /\ urls = <<UsProxy>>
    /\ retry = FALSE
    /\ _urlIndex = 0
    /\ _urlPage = Num(-1)
    /\ urlPage = Undefined
    /\ _proxies = <<>>
    /\ file = [exists |-> FALSE, lines |-> <<>>]
    /\ pending = <<>>
    /\ timers = 0
    /\ calls = <<>>
    /\ flushes = 0
    /\ cycle = 1
    /\ started = TRUE
    /\ crashed = FALSE
    /\ firstCall = <<>>
    /\ writable = TRUE
    /\ complete = <<>>
    /\ flushLog = <<>>
    /\ doc \in Docs
    /\ out = NoOut

\* extractProxies(data) for the document
Extract ==
    /\ doc # NoDoc
    /\ ~out.ran
    /\ LET res == extractRows(doc.url, doc.rows)
       IN  Becomes([State EXCEPT !.out = [ran |-> TRUE, threw |-> res.threw,
                                          ips |-> res.ips, checked |-> res.checked]])

NextExtract == Extract

SpecExtract == InitExtract /\ [][NextExtract]_vars

(***************************************************************************)
(* The older orchestrator (src/fetch.js): the constructor's fields, the    *)
(* 'fetchPage' handler, fetchPage and saveProxies as that file has them.   *)
(* It knows five sites, has no single-page mark, no bounded placeholder,   *)
(* no POST requests and no padding of page numbers.                        *)
(***************************************************************************)
\* this._requestTimeout = 5e3, in milliseconds
_requestTimeout == 5000

\* the fields the older constructor sets that the request options read; a
\* property that was never assigned reads as undefined
Property(name) == IF name = "_requestTimeout" THEN Num(_requestTimeout) ELSE Undefined

\* the sites the else-if chain of the older extractProxies tests for, in order
SignaturesOld == <<"hidemyass", "incloak", "proxy-list", "nordvpn", "cool-proxy">>

\* the branch of the older chain that runs for a URL, "" when none does: the
\* chain tests the same substrings in the same order as the first five tests
\* of the newer chain
ProcessorOld(url) ==
    IF \E i \in 1..Len(SignaturesOld) : SignaturesOld[i] = Processor(url)
    THEN Processor(url) ELSE ""

\* the older extractProxies as far as the orchestrator sees it: no branch for
\* the URL gives no records, and nothing catches what a branch throws
extractProxiesOld(sig, body) ==
    CASE sig = "" -> [threw |-> FALSE, ips |-> <<>>]
      [] sig \in {"hidemyass", "nordvpn"} ->
            IF body.shape = "bad" THEN [threw |-> TRUE, ips |-> <<>>]
            ELSE [threw |-> FALSE, ips |-> body.recs]
      [] OTHER ->
            IF body.shape = "bad" THEN [threw |-> FALSE, ips |-> <<>>]
            ELSE [threw |-> FALSE, ips |-> body.recs]

\* sources of the older defaults, and a URL without placeholder
ProxyListOrg == Template("http://proxy-list.org/english/index.php?p={page}",
                         FALSE, TRUE, <<>>, "proxy-list")
TemplatesOld == {Hidemyass, Incloak, ProxyListOrg, UsProxy}

outputFileOld == "proxies/fetched/fetched_proxies_{date}.txt"

outputPathOld ==
    LET i == IndexOf(outputFileOld, "{date}")
    IN  IF i < 0 THEN outputFileOld
        ELSE Sub(outputFileOld, 1, i) \o dateStamp
             \o Sub(outputFileOld, i + 7, Len(outputFileOld))

\* the older saveProxies: the duplicates are filtered by first index, and
\* only when the file exists
saveProxiesOld(st) ==
    LET appended == IF st.file.exists THEN st._proxies \o split(st.file.lines)
                    ELSE st._proxies
        merged == IF st.file.exists THEN Dedup(appended) ELSE st._proxies
    IN  IF ~st.writable
        THEN [st EXCEPT !._proxies = merged, !.flushes = @ + 1, !.crashed = TRUE]
        ELSE [st EXCEPT !._proxies = merged,
                        !.file = [exists |-> TRUE, lines |-> join(merged)],
                        !.flushes = @ + 1,
                        !.complete = Append(@, [path |-> outputPathOld,
                                                count |-> Len(merged),
                                                file |-> join(merged),
                                                timers |-> st.timers]),
                        !.flushLog = Append(@, [acc |-> st._proxies,
                                                prior |-> st.file,
                                                written |-> join(merged),
                                                removed |-> Removed(appended, merged),
                                                count |-> Len(merged)])]

\* startPage and inc of the older fetchPage after the parameters are parsed
parsePageOld(t) ==
    LET default == [startPage |-> Num(1), inc |-> Num(1)]
    IN  IF ~t.ph \/ ~Contains(t.params, ":") THEN default
        ELSE LET params == Split(t.params, ":")[2]
             IN  IF Contains(params, "-")
                 THEN LET p == Split(params, "-")
                      IN  [startPage |-> Piece(p, 0), inc |-> Piece(p, 1)]
                 ELSE [default EXCEPT !.startPage = parseInt(Str(params))]

\* request(options, callback) of the older fetchPage: a GET with the timeout
\* read from this.requestTimeout
requestOld(st, next, url, page) ==
    [st EXCEPT !._urlPage = next,
               !.pending = Append(@, [idx |-> st._urlIndex,
                                      page |-> page,
                                      method |-> "GET", url |-> url,
                                      timeout |-> Property("requestTimeout"),
                                      adapter |-> ProcessorOld(url),
                                      cycle |-> st.cycle,
                                      pos |-> Len(st.calls) + 1]),
               !.calls = Append(@, [idx |-> st._urlIndex, page |-> page,
                                    method |-> "GET",
                                    timeout |-> Property("requestTimeout"),
                                    adapter |-> ProcessorOld(url),
                                    res |-> "pending", recs |-> <<>>])]

\* the older fetchPage
fetchPageOld(st) ==
    LET t == st.urls[st._urlIndex + 1]
        p == parsePageOld(t)
        first == Less(st._urlPage, Num(0))
        \* the value substituted for the placeholder
        startPage == IF t.ph /\ ~first THEN parseInt(st._urlPage) ELSE p.startPage
        next == Add(parseInt(startPage), parseInt(p.inc))
    IN  requestOld(st, next,
                   IF t.ph THEN ReplacePage(t.url, Text(StringOf(startPage))) ELSE t.url,
                   IF t.ph THEN StringOf(startPage) ELSE <<>>)

\* the 'fetchPage' handler of the older main: a failed call flushes at once
\* and sets no timer; the timer is set after the empty page of the last source
onFetchPageOld(st, data) ==
    IF data.error = "" /\ data.status = 200
    THEN LET x == extractProxiesOld(data.adapter, data.body)
         IN  IF x.threw THEN [st EXCEPT !.crashed = TRUE]
             ELSE IF Len(x.ips) > 0
             THEN fetchPageOld([st EXCEPT !._proxies = @ \o x.ips])
             ELSE IF HasUrl(st, st._urlIndex + 1)
             THEN fetchPageOld(advance(st))
             ELSE LET s1 == saveProxiesOld(st)
                  IN  IF s1.crashed THEN s1
                      ELSE IF s1.retry THEN [s1 EXCEPT !.timers = @ + 1] ELSE s1
    ELSE saveProxiesOld(st)

OutcomeOld(sig, r) ==
    IF r.error # "" \/ r.status # 200 THEN "fail"
    ELSE LET x == extractProxiesOld(sig, r.body)
         IN  IF x.threw THEN "threw" ELSE IF x.ips = <<>> THEN "empty" ELSE "recs"

UrlListsOld == UNION {[1..n -> TemplatesOld] : n \in 1..MaxUrls}

InitOld ==
    /\ urls \in UrlListsOld
    /\ retry \in BOOLEAN
    /\ _urlIndex = 0
    /\ _urlPage = Num(-1)
    /\ urlPage = Undefined
    /\ _proxies = <<>>
    /\ file \in {[exists |-> FALSE, lines |-> <<>>],
                 [exists |-> TRUE, lines |-> <<"3.3.3.3:82", "1.1.1.1:80">>]}
    /\ pending = <<>>
    /\ timers = 0
    /\ calls = <<>>
    /\ flushes = 0
    /\ cycle = 1
    /\ started = FALSE
    /\ crashed = FALSE
    /\ firstCall = <<>>
    /\ writable \in BOOLEAN
    /\ complete = <<>>
    /\ flushLog = <<>>
    /\ doc = NoDoc
    /\ out = NoOut

\* the older main(): register the handler and fetch the first page
MainOld ==
    /\ ~started
    /\ LET st == fetchPageOld([State EXCEPT !.started = TRUE])
       IN  Becomes([st EXCEPT !.firstCall =
                       <<[idx |-> st.calls[1].idx, page |-> st.calls[1].page]>>])

\* the request callback of the older fetchPage
ResponseOld ==
    /\ ~crashed
    /\ \E i \in 1..Len(pending), r \in Responses :
          LET call == pending[i]
              res == OutcomeOld(call.adapter, r)
              logged == [calls EXCEPT ![call.pos].res = res,
                                      ![call.pos].recs = IF res = "recs" THEN r.body.recs
                                                         ELSE <<>>]
          IN  /\ res = "recs" => Len(calls) < MaxCalls
              /\ Becomes(onFetchPageOld(
                    [State EXCEPT !.pending = Remove(@, i), !.calls = logged],
                    [error |-> r.error, status |-> r.status, body |-> r.body,
                     idx |-> call.idx, url |-> call.url, adapter |-> call.adapter]))

\* the older retry timer fires: _this.startPage = 1 (a property nothing
\* reads), the accumulator emptied, and fetchPage; the index and the page
\* state stay as the cycle before left them
RetryTimerOld ==
    /\ ~crashed
    /\ timers > 0
    /\ cycle < MaxCycles
    /\ Becomes(fetchPageOld([State EXCEPT !._proxies = <<>>,
                                          !.timers = @ - 1,
                                          !.cycle = @ + 1,
                                          !.calls = <<>>,
                                          !.flushes = 0,
                                          !.complete = <<>>,
                                          !.flushLog = <<>>]))

NextOld == MainOld \/ ResponseOld \/ RetryTimerOld

SpecOld == InitOld /\ [][NextOld]_vars

(***************************************************************************)
(* What the properties speak of.                                           *)
(***************************************************************************)
\* the transport calls of the current cycle for source k (0-based)
CallsOf(k) ==
    LET ForK(c) == c.idx = k
    IN  SelectSeq(calls, ForK)

\* source k has been left in this cycle: by an advance or by the flush
SourceLeft(k) == _urlIndex > k \/ flushes > 0

\* the text of the placeholder after "{page:", "" when there is none
PageArgs(t) == IF Contains(t.params, ":") THEN Split(t.params, ":")[2] ELSE <<>>
IsStrided(t) == t.ph /\ Contains(PageArgs(t), "-")
IsBounded(t) == t.ph /\ ~Contains(PageArgs(t), "-") /\ Contains(PageArgs(t), "/")
\* A and B of {page:A-B} and {page:A/B}
ArgA(t) == DigitsValue(Split(PageArgs(t), IF IsStrided(t) THEN "-" ELSE "/")[1])
ArgB(t) == DigitsValue(Split(PageArgs(t), IF IsStrided(t) THEN "-" ELSE "/")[2])
LeadingZero(t) == Len(PageArgs(t)) > 1 /\ PageArgs(t)[1] = "0" /\ IsDigit(PageArgs(t)[2])

\* a placeholder of one of the four documented forms
Recognized(t) ==
    /\ t.ph
    /\ \/ t.params = <<>>
       \/ /\ Len(t.params) > 1
          /\ t.params[1] = ":"
          /\ LeadingDigits(PageArgs(t)) # <<>>
\* the start page a recognized template configures
ConfiguredStart(t) ==
    IF t.params = <<>> THEN 1 ELSE DigitsValue(LeadingDigits(PageArgs(t)))

\* the number a substituted page value reads as
PageNumber(page) == ToNumber(Str(page))

\* n as two digits at least
TwoDigits(n) == IF n < 10 THEN <<"0">> \o NatToString(n) ELSE NatToString(n)

NoDuplicates(seq) == \A i, j \in 1..Len(seq) : i # j => seq[i] # seq[j]

(***************************************************************************)
(* The claims.                                                             *)
(***************************************************************************)
\* C1: every cycle started by the retry timer begins from reset state, so its
\* first transport call is for the first source at the page the first cycle
\* started with.
C1_RetryCycleStartsAtStartPage ==
    (cycle > 1 /\ calls # <<>>) =>
        /\ calls[1].idx = 0
        /\ firstCall = <<[idx |-> calls[1].idx, page |-> calls[1].page]>>

\* C2: a transport error, a timeout or a non-200 status makes the orchestrator
\* abandon the source: the next transport call is for the next configured
\* source at its start page, or, when no source remains, the store is flushed;
\* the failing source is not fetched again in the cycle.
C2_FailureAbandonsSource ==
    \A i \in 1..Len(calls) :
        calls[i].res = "fail" =>
            /\ \A j \in (i + 1)..Len(calls) : calls[j].idx # calls[i].idx
            /\ IF calls[i].idx + 2 <= Len(urls)
               THEN /\ i < Len(calls)
                    /\ calls[i + 1].idx = calls[i].idx + 1
                    /\ LET t == urls[calls[i].idx + 2]
                       IN  Recognized(t) =>
                              PageNumber(calls[i + 1].page) = Num(ConfiguredStart(t))
               ELSE /\ i = Len(calls)
                    /\ flushes = 1

\* C2 witness: in a retry cycle a failed call was followed by the call for the
\* next source, whose template has a placeholder.
C2_Witness ==
    /\ cycle > 1
    /\ \E i \in 1..(Len(calls) - 1) :
          /\ calls[i].res = "fail"
          /\ calls[i + 1].idx = calls[i].idx + 1
          /\ Recognized(urls[calls[i].idx + 2])

\* C3: in every cycle a {page:A/B} source whose pages all answer 200 with
\* records gets exactly B - A + 1 transport calls, for pages A..B in order.
C3_BoundedSourceGetsAllPages ==
    \A k \in 0..(Len(urls) - 1) :
        LET t == urls[k + 1]
            cs == CallsOf(k)
        IN  (IsBounded(t) /\ SourceLeft(k) /\ \A i \in 1..Len(cs) : cs[i].res = "recs") =>
               /\ Len(cs) = ArgB(t) - ArgA(t) + 1
               /\ \A i \in 1..Len(cs) : cs[i].page = NatToString(ArgA(t) + i - 1)

\* C4: no transport call is ever issued for a {page:A/B} source with a page
\* index greater than B.
C4_NoCallBeyondBound ==
    \A i \in 1..Len(calls) :
        LET t == urls[calls[i].idx + 1]
            n == PageNumber(calls[i].page)
        IN  IsBounded(t) => ~(n.t = "num" /\ n.n > ArgB(t))

\* C5: the page substituted in the N-th fetch of a {page:A-B} source is
\* A + (N-1)*B, as the zero-padded two-digit string when A has a leading zero.
C5_StridedPages ==
    \A k \in 0..(Len(urls) - 1) :
        LET t == urls[k + 1]
            cs == CallsOf(k)
        IN  IsStrided(t) =>
               \A i \in 1..Len(cs) :
                  cs[i].page = IF LeadingZero(t)
                               THEN TwoDigits(ArgA(t) + (i - 1) * ArgB(t))
                               ELSE NatToString(ArgA(t) + (i - 1) * ArgB(t))

\* C6: after every flush, whether or not the file existed before, no two lines
\* of the written file are equal.
C6_FlushedFileHasNoDuplicates ==
    (flushes > 0 \/ cycle > 1) => NoDuplicates(file.lines)

\* C7: whatever the body of a 200 response, no exception escapes the step: the
\* cycle never stops on an exception before it has reached the save.
C7_NoExceptionEscapes == ~(crashed /\ flushes = 0)

\* C8: a template whose placeholder has unrecognized syntax gets exactly one
\* transport call per cycle, like a template without placeholder.
C8_MalformedIsSingleShot ==
    \A k \in 0..(Len(urls) - 1) :
        (urls[k + 1].ph /\ ~Recognized(urls[k + 1])) => Len(CallsOf(k)) <= 1

\* C9: at most one transport call is outstanding in every reachable state.
C9_OneCallOutstanding == Len(pending) <= 1

\* C9 witness: a call issued by the handler of the previous call's result is
\* outstanding in a cycle that the retry timer started.
C9_Witness ==
    /\ cycle > 1
    /\ Len(pending) = 1
    /\ Len(calls) >= 2
    /\ calls[Len(calls) - 1].res # "pending"

\* C10: within a cycle the transport calls visit the sources in list order,
\* skipping none, and the pages fetched for one source are strictly ascending.
C10_SourcesInOrderPagesAscending ==
    /\ calls # <<>> => calls[1].idx = 0
    /\ \A i \in 1..(Len(calls) - 1) :
          /\ calls[i + 1].idx \in {calls[i].idx, calls[i].idx + 1}
          /\ calls[i + 1].idx = calls[i].idx =>
                LET a == PageNumber(calls[i].page)
                    b == PageNumber(calls[i + 1].page)
                IN  a.t = "num" /\ b.t = "num" /\ a.n < b.n

\* C11: a 200 response from which no record is extracted ends the source for
\* the cycle, whatever its template: the source is not fetched again, the next
\* transport call is for the next configured source, and when no source
\* remains the store is flushed.
C11_EmptyResultEndsSource ==
    \A i \in 1..Len(calls) :
        calls[i].res = "empty" =>
            /\ \A j \in (i + 1)..Len(calls) : calls[j].idx # calls[i].idx
            /\ IF calls[i].idx + 2 <= Len(urls)
               THEN /\ i < Len(calls)
                    /\ calls[i + 1].idx = calls[i].idx + 1
               ELSE /\ i = Len(calls)
                    /\ flushes = 1
                    /\ pending = <<>>

\* C11 witness: a paginated source answered a page with records and the next
\* page with none, and the next call went to the following source.
C11_Witness ==
    \E i \in 2..(Len(calls) - 1) :
        /\ calls[i].res = "empty"
        /\ calls[i - 1].res = "recs"
        /\ calls[i - 1].idx = calls[i].idx
        /\ urls[calls[i].idx + 1].ph
        /\ calls[i + 1].idx = calls[i].idx + 1

\* the increment the documentation gives a template: B for {page:A-B}, else 1
Increment(t) == IF IsStrided(t) THEN ArgB(t) ELSE 1

\* C12: after a 200 response with at least one record from a source whose
\* template has a page placeholder, the next transport call is for the same
\* source with the page advanced by the source's increment; a {page} source
\* starts at page 1 and a {page:N} source at page N.
C12_RecordsFetchNextPage ==
    /\ \A i \in 1..Len(calls) :
          LET t == urls[calls[i].idx + 1]
          IN  (calls[i].res = "recs" /\ t.ph) =>
                 /\ i < Len(calls)
                 /\ calls[i + 1].idx = calls[i].idx
                 /\ PageNumber(calls[i].page) # NaN
                 /\ PageNumber(calls[i + 1].page) =
                       Add(PageNumber(calls[i].page), Num(Increment(t)))
    /\ \A k \in 0..(Len(urls) - 1) :
          LET t == urls[k + 1]
          IN  (CallsOf(k) # <<>> /\ Recognized(t) /\ ~IsStrided(t) /\ ~IsBounded(t)) =>
                 PageNumber(CallsOf(k)[1].page) = Num(ConfiguredStart(t))

\* C13: a template with no page placeholder gets one transport call per cycle:
\* after its result, whether records, no records or a failure, the next call is
\* for the next configured source, or the store is flushed when none remains,
\* and the URL is not fetched a second time in the cycle.
C13_SinglePageFetchedOnce ==
    \A k \in 0..(Len(urls) - 1) :
        ~urls[k + 1].ph =>
            /\ Len(CallsOf(k)) <= 1
            /\ SourceLeft(k) => Len(CallsOf(k)) = 1
            /\ \A i \in 1..Len(calls) :
                  (calls[i].idx = k /\ calls[i].res \in {"recs", "empty", "fail"}) =>
                      IF k + 2 <= Len(urls)
                      THEN i < Len(calls) /\ calls[i + 1].idx = k + 1
                      ELSE i = Len(calls) /\ flushes = 1 /\ pending = <<>>

\* C13 witness: a single-page source answered with records and the next call
\* went to the following source.
C13_Witness ==
    \E i \in 1..(Len(calls) - 1) :
        /\ ~urls[calls[i].idx + 1].ph
        /\ calls[i].res = "recs"
        /\ calls[i + 1].idx = calls[i].idx + 1

RECURSIVE RecordsOf(_)
\* the records of the calls of a log, call after call
RecordsOf(log) ==
    IF log = <<>> THEN <<>>
    ELSE RecordsOf(SubSeq(log, 1, Len(log) - 1)) \o log[Len(log)].recs

\* the accumulator handed to the flush is the records of the cycle's calls
AccumulatorIsCallRecords ==
    \A f \in 1..Len(flushLog) : flushLog[f].acc = RecordsOf(calls)

\* a {page} source answered records k times and then nothing: k + 1 fetches,
\* of pages 1..k+1
SequentialPagesFromOne ==
    \A k \in 0..(Len(urls) - 1) :
        LET t == urls[k + 1]
            c == CallsOf(k)
        IN  (/\ t.ph /\ t.params = <<>>
             /\ SourceLeft(k)
             /\ c # <<>>
             /\ c[Len(c)].res = "empty"
             /\ \A j \in 1..(Len(c) - 1) : c[j].res = "recs") =>
                \A j \in 1..Len(c) : PageNumber(c[j].page) = Num(j)

\* C14: at the flush the accumulator, before the merge with the file, is the
\* records of the cycle's 200 responses in source, page and row order; a {page}
\* source with records on pages 1..k and none on page k+1 gets k+1 fetches and
\* contributes the records of pages 1..k; failed and empty pages change nothing.
C14_AccumulatorIsCycleRecords ==
    /\ AccumulatorIsCallRecords
    /\ SequentialPagesFromOne

Range(seq) == {seq[i] : i \in 1..Len(seq)}
\* the position of the first occurrence of x in seq
FirstPos(seq, x) == CHOOSE i \in 1..Len(seq) : seq[i] = x /\ \A j \in 1..(i - 1) : seq[j] # x

\* C15: when the output file exists, a flush writes the first occurrences of
\* (the new records, then the lines of the file), in that order: no line twice,
\* every new record and every prior line present, each new record before each
\* prior line that is not a new record.
C15_FlushWritesStableMerge ==
    \A f \in 1..Len(flushLog) :
        LET all == flushLog[f].acc \o flushLog[f].prior.lines
            w == flushLog[f].written
        IN  flushLog[f].prior.exists =>
               /\ NoDuplicates(w)
               /\ Range(w) = Range(all)
               /\ \A i, j \in 1..Len(w) : i < j => FirstPos(all, w[i]) < FirstPos(all, w[j])
               /\ file.lines = flushLog[Len(flushLog)].written

\* C15 witness: a flush merged a new record, a record already in the file and
\* a line of the file that is not a new record.
C15_Witness ==
    \E f \in 1..Len(flushLog) :
        /\ flushLog[f].prior.exists
        /\ Range(flushLog[f].acc) \ Range(flushLog[f].prior.lines) # {}
        /\ Range(flushLog[f].acc) \cap Range(flushLog[f].prior.lines) # {}
        /\ Range(flushLog[f].prior.lines) \ Range(flushLog[f].acc) # {}

\* C16 as stated: when two flushes in succession are handed the same new
\* records, the file has the same set of lines after both, and the second
\* flush removes as many duplicates as the store held after the first flush.
C16_SecondFlushRemovesStoreSize ==
    \A f \in 1..(Len(flushLog) - 1) :
        flushLog[f + 1].acc = flushLog[f].acc =>
            /\ Range(flushLog[f + 1].written) = Range(flushLog[f].written)
            /\ flushLog[f + 1].removed = flushLog[f].count

\* C16 amended: when two flushes in succession are handed the same new
\* records, the file has the same set of lines after both, and the second
\* flush removes as many duplicates as there are new records, plus the
\* repeated lines the first flush left in the file.
C16_SecondFlushRemovesNewRecords ==
    \A f \in 1..(Len(flushLog) - 1) :
        flushLog[f + 1].acc = flushLog[f].acc =>
            /\ Range(flushLog[f + 1].written) = Range(flushLog[f].written)
            /\ flushLog[f + 1].removed =
                  Len(flushLog[f].acc)
                  + (Len(flushLog[f].written) - Cardinality(Range(flushLog[f].written)))

\* C16 witness: the same two new records were flushed twice to a file that
\* held another line before, so the store is larger than the new records.
C16_Witness ==
    \E f \in 1..(Len(flushLog) - 1) :
        /\ flushLog[f + 1].acc = flushLog[f].acc
        /\ Len(flushLog[f].acc) = 2
        /\ flushLog[f].count > Len(flushLog[f].acc)

\* C17: when a flush with an empty accumulator follows a flush that wrote the
\* file, the file holds the same lines in the same order after both.
C17_EmptyFlushKeepsFile ==
    \A f \in 1..(Len(flushLog) - 1) :
        flushLog[f + 1].acc = <<>> => flushLog[f + 1].written = flushLog[f].written

\* C18: when no retry interval is configured the run ends at the flush: there
\* is one flush at most, no timer is ever scheduled, and once the store is
\* flushed no transport call is outstanding or issued.
C18_NoRetryEndsAtFlush ==
    ~retry =>
        /\ timers = 0
        /\ cycle = 1
        /\ flushes <= 1
        /\ flushes = 1 =>
              /\ pending = <<>>
              /\ \A i \in 1..Len(calls) : calls[i].res # "pending"
              /\ ~ENABLED Next

\* C18 witness: without a retry interval a run of two calls reached the flush
\* and wrote the file.
C18_Witness ==
    /\ ~retry
    /\ flushes = 1
    /\ flushLog # <<>>
    /\ Len(calls) >= 2

\* C19: when the write of the output file fails during a flush the run ends
\* there, also when a retry interval is configured: no timer is set, no
\* transport call is outstanding or issued, and no 'complete' event is emitted.
C19_WriteFailureEndsRun ==
    (~writable /\ flushes > 0) =>
        /\ crashed
        /\ timers = 0
        /\ pending = <<>>
        /\ complete = <<>>
        /\ cycle = 1
        /\ ~ENABLED Next

\* C19 witness: with a retry interval configured, a flush after two calls found
\* the output path unwritable.
C19_Witness ==
    /\ ~writable
    /\ retry
    /\ flushes = 1
    /\ Len(calls) >= 2

\* C20: with every transport call answered and every source without upper
\* bound answering some page with no records or a failure, a cycle does not
\* come to rest before its flush: whenever no call is outstanding the store
\* has been flushed, and it is flushed at the last configured source.
C20_CycleReachesFlush ==
    /\ (started /\ pending = <<>>) => flushes > 0
    /\ flushes > 0 => _urlIndex = Len(urls) - 1

\* C21: a {page:A/B} source is left after B - A + 1 transport calls at most
\* in a cycle, whatever its pages answer.
C21_BoundedSourceCallsBounded ==
    \A k \in 0..(Len(urls) - 1) :
        IsBounded(urls[k + 1]) =>
            Len(CallsOf(k)) <= ArgB(urls[k + 1]) - ArgA(urls[k + 1]) + 1

\* C22: for a {page:N} template whose N is written with a leading zero, the
\* page substituted in the i-th fetch of the source is N + i - 1, written with
\* two digits at least.
C22_LeadingZeroPagesPadded ==
    \A k \in 0..(Len(urls) - 1) :
        LET t == urls[k + 1]
            cs == CallsOf(k)
        IN  (Recognized(t) /\ ~IsStrided(t) /\ ~IsBounded(t) /\ LeadingZero(t)) =>
               \A i \in 1..Len(cs) : cs[i].page = TwoDigits(ConfiguredStart(t) + i - 1)

\* the URLs fetched for a default source, for some page texts
DefaultFetched(d) ==
    {Payload(ReplacePage(d.url, page)).url : page \in {"0", "1", "01", "12", "NaN"}}

\* every default source is dispatched to the adapter of its site, and to it alone
DefaultsDispatched ==
    \A i \in 1..Len(DefaultUrls) :
        \A url \in DefaultFetched(DefaultUrls[i]) : Processors(url) = {DefaultUrls[i].site}

\* so is every configured template, for the page texts of short runs
TemplatesDispatched ==
    \A t \in Templates :
        \A page \in PageTexts : Processors(Request(t, page).url) = {t.sig}

\* C23: one adapter runs for a fetched URL, the one of the URL's site, also
\* when the URL contains the signatures of several adapters; each default
\* source URL is dispatched to the adapter of its own site.
C23_OneAdapterPerUrl ==
    /\ DefaultsDispatched
    /\ TemplatesDispatched
    /\ \A i \in 1..Len(pending) : pending[i].adapter = urls[pending[i].idx + 1].sig

\* C23 witness: a call is outstanding for a URL that contains the signatures
\* of two adapters, after its source answered a page with records.
C23_Witness ==
    \E i \in 1..Len(pending) :
        /\ IndexOf(pending[i].url, "incloak") > -1
        /\ IndexOf(pending[i].url, "proxy-list") > -1
        /\ pending[i].adapter = "incloak"
        /\ \E j \in 1..Len(calls) : calls[j].idx = pending[i].idx /\ calls[j].res = "recs"

\* C24: a 200 response from a source whose URL contains no adapter signature
\* gives no records, whatever the document: the accumulator holds the records
\* of the other calls only, the source is not fetched again, and the next call
\* is for the next source or the store is flushed; so too with a placeholder.
C24_NoAdapterIsZeroRecords ==
    /\ flushes = 0 => _proxies = RecordsOf(calls)
    /\ \A i \in 1..Len(calls) :
          calls[i].adapter = "" =>
              /\ calls[i].res \in {"pending", "fail", "empty"}
              /\ calls[i].recs = <<>>
              /\ calls[i].res = "empty" =>
                    /\ \A j \in (i + 1)..Len(calls) : calls[j].idx # calls[i].idx
                    /\ IF HasUrl(State, calls[i].idx + 1)
                       THEN i < Len(calls) /\ calls[i + 1].idx = calls[i].idx + 1
                       ELSE i = Len(calls) /\ flushes = 1 /\ pending = <<>>

\* C24 witness: after a source with records, a source with a placeholder and
\* no adapter answered 200, and the next call went to the source after it.
C24_Witness ==
    \E i \in 2..(Len(calls) - 1) :
        /\ urls[calls[i].idx + 1] = NoAdapter
        /\ calls[i].adapter = ""
        /\ calls[i].res = "empty"
        /\ calls[i - 1].res = "recs"
        /\ calls[i + 1].idx = calls[i].idx + 1
        /\ _proxies # <<>>

\* C30: a cycle reaches the flush only after every configured entry with a
\* non-empty template has had a fetch attempt or was ended by its bound.
C30_FlushAfterEveryEntry ==
    flushes > 0 =>
        \A k \in 0..(Len(urls) - 1) :
            (urls[k + 1].url # "" /\ ~IsBounded(urls[k + 1])) => CallsOf(k) # <<>>

\* the branches of extractProxies
AdapterNames == {Signatures[i] : i \in 1..Len(Signatures)}

\* the adapters that push nothing for some row whose address fails the pattern
Discarding ==
    {sig \in AdapterNames :
        \E ip \in Addresses : /\ ~validateIpAddress(ip)
                               /\ eachRow(sig, RowFor(sig, ip)).ips = <<>>}

Shown(style, cls) ==
    \E i \in 1..Len(style) : style[i].name = cls /\ style[i].display = "inline"

IsNumber(cls) == cls # "" /\ \A i \in 1..Len(cls) : IsDigit(Sub(cls, i, i))

RECURSIVE ShownText(_, _)
ShownText(style, frags) ==
    IF frags = <<>> THEN ""
    ELSE (IF frags[1].cls = "" \/ Shown(style, frags[1].cls) \/ IsNumber(frags[1].cls)
          THEN frags[1].text ELSE "")
         \o ShownText(style, Tail(frags))

\* C26: in the hidemyass adapter, for every style block and every sequence
\* of fragments that are unclassed, classed visible, classed hidden or
\* classed with a number, the reconstructed address is the concatenation in
\* document order of exactly the unclassed, visible and numeric fragments:
\* no hidden fragment contributes and no fragment is added twice
C26_AddressIsShownFragments ==
    (out.ran /\ ~out.threw /\ doc.url = UrlOf("hidemyass")) =>
        out.ips = [i \in 1..Len(doc.rows) |->
                      ShownText(doc.rows[i].style, doc.rows[i].frags)
                      \o ":" \o doc.rows[i].port]

\* the reference rot13: a letter goes to the letter 13 places on in the
\* alphabet of its own case, around the end; any other character stays
Lower == "abcdefghijklmnopqrstuvwxyz"
Upper == "ABCDEFGHIJKLMNOPQRSTUVWXYZ"
Rot13Char(c) ==
    CASE IndexOf(Lower, c) >= 0 ->
            LET p == (IndexOf(Lower, c) + 13) % 26 IN Sub(Lower, p + 1, p + 1)
      [] IndexOf(Upper, c) >= 0 ->
            LET p == (IndexOf(Upper, c) + 13) % 26 IN Sub(Upper, p + 1, p + 1)
      [] OTHER -> c
Rot13(s) == Text([i \in 1..Len(s) |-> Rot13Char(Sub(s, i, i))])

\* C27: the rot13 transform of the cool-proxy adapter equals the reference
\* rot13 on every string of ASCII letters, digits and separators: a letter
\* maps to the letter 13 places away in its own case, a non-letter is
\* unchanged, applying it twice is the identity, and it is applied to the
\* payload before the base64 decoding
C27_Rot13ThenBase64 ==
    (out.ran /\ doc.url = UrlOf("cool-proxy")) =>
        /\ \A i \in 1..Len(doc.rows) :
              LET payload == doc.rows[i].payload
              IN  /\ str_rot13(payload) = Rot13(payload)
                  /\ Len(str_rot13(payload)) = Len(payload)
                  /\ \A k \in 1..Len(payload) :
                        LET c == Sub(payload, k, k)
                        IN  (IndexOf(Lower, c) < 0 /\ IndexOf(Upper, c) < 0)
                                => Sub(str_rot13(payload), k, k) = c
                  /\ str_rot13(str_rot13(payload)) = payload
        /\ out.ips = [i \in 1..Len(doc.rows) |->
                          base64Decode(Rot13(doc.rows[i].payload))
                          \o ":" \o doc.rows[i].port]

\* a payload of capitals, small letters, digits and '=' that decodes to an
\* address only after the rot13
C27_Witness ==
    /\ out.ran
    /\ doc.url = UrlOf("cool-proxy")
    /\ Len(doc.rows) = 1
    /\ doc.rows[1].payload = "ZF4lYwZhAN=="
    /\ out.ips = <<"1.2.3.4:80">>
    /\ base64Decode("ZF4lYwZhAN==") # "1.2.3.4"

\* what C28 asks of the call c made for page text page of template t
PostRule(t, page, c) ==
    LET resolved == IF t.ph THEN ReplacePage(t.url, page) ELSE t.url
        stripped == Sub(resolved, 6, Len(resolved))
    IN  /\ c.method \in {"GET", "POST"}
        /\ (c.method = "POST") <=> (Sub(t.url, 1, 5) = "POST:")
        /\ c.method = "POST" =>
              /\ c.url = stripped
              /\ c.form = <<Query(stripped)>>
              /\ c.adapter = Processor(stripped)
        /\ c.method = "GET" =>
              /\ c.url = resolved
              /\ c.form = <<>>
              /\ c.adapter = Processor(resolved)

\* the rule on the requests of the page texts of short runs
PostRuleOnRequests ==
    \A t \in Templates : \A page \in PageTexts : PostRule(t, page, Requests[t][page])

\* C28: a transport call uses POST if and only if the source template begins
\* with POST:; then the prefix is taken off the requested URL, the form body
\* is the query parameters of the resolved URL and adapter selection gets the
\* stripped URL; otherwise the method is GET and there is no form body
C28_PostIffPrefixed ==
    /\ PostRuleOnRequests
    /\ \A i \in 1..Len(pending) :
          LET c == pending[i]
              t == urls[c.idx + 1]
              page == Text(c.page)
              r == [url |-> c.url, method |-> c.method, form |-> c.form,
                    adapter |-> c.adapter]
          IN  IF t \in Templates /\ page \in PageTexts
              THEN r = Requests[t][page]
              ELSE PostRule(t, page, c)

\* the second page of the gatherproxy source is asked for with POST, the
\* prefix gone from the URL and the two parameters of the query as the form
C28_Witness ==
    \E i \in 1..Len(pending) :
        /\ urls[pending[i].idx + 1] = Gather
        /\ pending[i].method = "POST"
        /\ pending[i].url
              = "http://gatherproxy.com/proxylist/country/?Country=united+kingdom&PageIdx:2"
        /\ pending[i].form = << <<[name |-> "Country", value |-> "united kingdom"],
                                  [name |-> "PageIdx:2", value |-> ""]>> >>
        /\ pending[i].adapter = "gather"

\* the number of lines of a file: none when the file is empty
LineCount(lines) == IF lines = <<"">> THEN 0 ELSE Len(lines)

\* C29: a cycle that reaches the flush emits 'complete' exactly once, after
\* the file has been written and before a retry timer is scheduled, with the
\* resolved output path and a count equal to the number of lines written to
\* the file
C29_CompleteOncePerFlush ==
    (writable /\ flushes > 0) =>
        /\ flushes = 1
        /\ Len(complete) = 1
        /\ Len(flushLog) = 1
        /\ complete[1].path = "/proxies/fetched/fetched_proxies_05-11-2026.txt"
        /\ complete[1].file = flushLog[1].written
        /\ complete[1].timers = 0
        /\ complete[1].count = LineCount(flushLog[1].written)

\* C31: the stored set only grows: every line in the file after one flush is
\* in the file after every later flush to the same path, in later cycles and
\* in later runs (which start from the file an earlier run left)
C31_StoredSetOnlyGrows ==
    [][file.exists => /\ file'.exists
                      /\ Range(file.lines) \subseteq Range(file'.lines)]_vars

\* a second flush found the lines of the first in the file and added a record
C31_Witness ==
    /\ Len(flushLog) >= 2
    /\ flushLog[2].prior.lines = flushLog[1].written
    /\ Range(flushLog[1].written) \subseteq Range(file.lines)
    /\ Range(file.lines) \ Range(flushLog[1].written) # {}
    /\ Len(flushLog[1].written) >= 2

\* C32: the count a flush reports is the number of distinct non-empty lines of
\* the file it wrote, and reloading a file never puts the empty string among
\* the records
C32_CountIsDistinctLinesNoEmptyRecord ==
    /\ \A i \in 1..Len(flushLog) :
            flushLog[i].count = Cardinality(Range(flushLog[i].written) \ {""})
    /\ "" \notin Range(_proxies)

\* C33: within a cycle the page state does not leak from one source to the
\* next: the first transport call for a source the index advanced to is for
\* that source's own start page (no page at all for a template without
\* placeholder), whatever page the source before it had reached
C33_AdvanceResetsPageState ==
    \A k \in 1..(Len(urls) - 1) :
        CallsOf(k) # <<>> =>
            LET t == urls[k + 1]
                first == CallsOf(k)[1]
            IN  /\ ~t.ph => first.page = <<>>
                /\ Recognized(t) => PageNumber(first.page) = Num(ConfiguredStart(t))

\* C33 witness: a source was fetched up to a later page, and the call for the
\* source after it is for that source's start page, which is another page
\* than the one the earlier source would have fetched next
C33_Witness ==
    \E k \in 1..(Len(urls) - 1) :
        /\ Len(CallsOf(k - 1)) >= 2
        /\ CallsOf(k) # <<>>
        /\ Recognized(urls[k + 1])
        /\ Recognized(urls[k])
        /\ PageNumber(CallsOf(k)[1].page) = Num(ConfiguredStart(urls[k + 1]))
        /\ LET last == CallsOf(k - 1)[Len(CallsOf(k - 1))]
           IN  /\ PageNumber(last.page) # PageNumber(CallsOf(k - 1)[1].page)
               /\ PageNumber(last.page) # PageNumber(CallsOf(k)[1].page)

\* C34: cycles never overlap: at most one retry timer is pending, no transport
\* call is outstanding while a retry timer is pending, and the accumulator is
\* not modified between the flush and the reset by the timer
C34_CyclesNeverOverlap ==
    [][/\ timers' <= 1
       /\ timers' > 0 => pending' = <<>>
       /\ (timers > 0 /\ cycle' = cycle) => _proxies' = _proxies]_vars

\* C34 witness: a retry cycle has fetched records and flushed them, and its
\* timer is pending with nothing outstanding
C34_Witness ==
    /\ cycle > 1
    /\ timers = 1
    /\ pending = <<>>
    /\ flushes = 1
    /\ _proxies # <<>>
    /\ \E i \in 1..Len(calls) : calls[i].res = "recs"

\* C35: in the older orchestrator every cycle the retry timer starts fetches
\* again from every configured source: its first call is for the first source
\* at the page the first cycle started with, the accumulator is empty when it
\* starts, and a cycle none of whose calls failed has fetched every source
\* when it flushes
C35_OlderRetryCycleStartsOver ==
    (cycle > 1 /\ calls # <<>>) =>
        /\ calls[1].idx = 0
        /\ firstCall = <<[idx |-> calls[1].idx, page |-> calls[1].page]>>
        /\ (Len(calls) = 1 /\ calls[1].res = "pending") => _proxies = <<>>
        /\ (flushes > 0 /\ \A i \in 1..Len(calls) : calls[i].res # "fail") =>
               \A k \in 0..(Len(urls) - 1) : CallsOf(k) # <<>>

\* C36: in the older orchestrator a failed call (transport error or non-200
\* status) on a source that is not the last does not end the cycle: the next
\* call is for the next source; and with a retry interval configured a timer
\* is pending after every flush that succeeded, whatever led to the flush
C36_OlderFailureContinuesAndRetries ==
    /\ \A i \in 1..Len(calls) :
           (calls[i].res = "fail" /\ calls[i].idx + 2 <= Len(urls)) =>
               /\ i < Len(calls)
               /\ calls[i + 1].idx = calls[i].idx + 1
    /\ (retry /\ flushes > 0 /\ ~crashed) => timers > 0

\* C37: in the older orchestrator every transport call is issued with the
\* per-request timeout the constructor sets, 5000 ms
C37_OlderCallsCarryTimeout ==
    /\ \A i \in 1..Len(calls) : calls[i].timeout = Num(_requestTimeout)
    /\ \A i \in 1..Len(pending) : pending[i].timeout = Num(_requestTimeout)

====
